---- MODULE Spec2Model ----
(***************************************************************************)
(* ShellKeeper (bin/shellkeeper.py): the session registry and its liveness *)
(* model.  The socket directory and the metadata file are the shared       *)
(* state; every lifecycle operation of class ShellKeeper is one action.    *)
(***************************************************************************)
EXTENDS Integers, Sequences, FiniteSets, TLC

\* ------------------------------------------------------------------ bounds
\* Largest value of the wall clock (datetime.now()) the model explores.
MaxTime == 1

\* ------------------------------------------------------------- value sets
\* Session names (socket file stems).
Names == {"a", "b"}

\* Python's None for an optional string field.
None == "none"

\* Value of a timestamp key that is missing from a record (dict.get -> None).
NoTime == -1

Times == 0..MaxTime

\* (profile_name, profile_uuid) pairs a caller passes after profile lookup.
ProfileArgs == {<<None, None>>, <<"Dark", "u1">>, <<"Dark", None>>}

\* Note texts.
Notes == {"testing"}

\* ------------------------------------------------------------------ state
VARIABLES
    handles,    \* socket directory: name -> "absent" | "alive" | "dead"
    mtime,      \* st_mtime of each socket file (0 when absent)
    store,      \* metadata.json: a dict name -> record
    now,        \* the wall clock
    last,       \* the operation that returned last, with its result
    inv         \* the invocations that run concurrently, step by step

vars == <<handles, mtime, store, now, last, inv>>

\* No operation has returned since the last change made by the environment.
\* Fields: the operation and its arguments (op, name, name2), its return value
\* (ret, and list for the names list_sessions returns), the multiplexer call it
\* made (mux) and how that call ended (ended), and two history fields: the
\* state of name's handle when the operation started (was) and the names the
\* scan found dead (dead).  list_sessions also leaves the dicts it returned
\* (entries), cleanup its argument (days), import its two counts.  The calls
\* made on the SessionMetadata object leave their arguments (pn, pu, note,
\* active, doc, force), clean the names it returned (removed), and a call
\* that ended in an exception the exception (raised).
NoOp == [op |-> "none", name |-> None, name2 |-> None, ret |-> FALSE,
         mux |-> None, ended |-> None, was |-> None, list |-> <<>>, dead |-> {},
         entries |-> <<>>, days |-> 0, imported |-> 0, skipped |-> 0,
         pn |-> None, pu |-> None, note |-> None, active |-> {}, removed |-> {},
         doc |-> <<>>, force |-> FALSE, raised |-> None]

Returned(o, n, n2, r, w) ==
    [NoOp EXCEPT !.op = o, !.name = n, !.name2 = n2, !.ret = r, !.was = w]

\* ------------------------------------------------- SessionMetadata (store)
\* SessionMetadata.get: the record, or {} (every key missing).
EmptyRec == [created |-> NoTime, last_attached |-> NoTime,
             profile_name |-> None, profile_uuid |-> None, note |-> None]

MetaGet(d, n) == IF n \in DOMAIN d THEN d[n] ELSE EmptyRec

\* SessionMetadata.set: create with `created` if absent, refresh
\* last_attached, overwrite a profile field only when it is given.
\* Mutant: set writes nothing.
MetaSet_Skip(d, n, pn, pu, t) == d

\* Mutant: last_attached is written only with a new record.
MetaSet_NoRefresh(d, n, pn, pu, t) ==
    LET base == IF n \in DOMAIN d THEN d[n]
                ELSE [EmptyRec EXCEPT !.created = t, !.last_attached = t]
        rec  == [base EXCEPT !.profile_name = IF pn # None THEN pn ELSE @,
                             !.profile_uuid = IF pu # None THEN pu ELSE @]
    IN [x \in (DOMAIN d) \cup {n} |-> IF x = n THEN rec ELSE d[x]]

\* Mutant: the profile fields are set to what is given, None included.
MetaSet_Overwrite(d, n, pn, pu, t) ==
    LET base == IF n \in DOMAIN d THEN d[n]
                ELSE [EmptyRec EXCEPT !.created = t]
        rec  == [base EXCEPT !.last_attached = t,
                             !.profile_name = pn, !.profile_uuid = pu]
    IN [x \in (DOMAIN d) \cup {n} |-> IF x = n THEN rec ELSE d[x]]

\* Mutant: `created` is written on every call.
MetaSet_Recreate(d, n, pn, pu, t) ==
    LET base == IF n \in DOMAIN d THEN d[n] ELSE EmptyRec
        rec  == [base EXCEPT !.created = t, !.last_attached = t,
                             !.profile_name = IF pn # None THEN pn ELSE @,
                             !.profile_uuid = IF pu # None THEN pu ELSE @]
    IN [x \in (DOMAIN d) \cup {n} |-> IF x = n THEN rec ELSE d[x]]

MetaSet(d, n, pn, pu, t) ==
    LET base == IF n \in DOMAIN d THEN d[n]
                ELSE [EmptyRec EXCEPT !.created = t]
        rec  == [base EXCEPT !.last_attached = t,
                             !.profile_name = IF pn # None THEN pn ELSE @,
                             !.profile_uuid = IF pu # None THEN pu ELSE @]
    IN [x \in (DOMAIN d) \cup {n} |-> IF x = n THEN rec ELSE d[x]]

\* SessionMetadata.set_note: only on an existing record.
\* Mutant: a record is made up for a name that has none.
MetaSetNote_Create(d, n, note) ==
    [x \in (DOMAIN d) \cup {n} |->
        IF x = n THEN [MetaGet(d, n) EXCEPT !.note = note] ELSE d[x]]

MetaSetNote(d, n, note) ==
    IF n \in DOMAIN d THEN [d EXCEPT ![n].note = note] ELSE d

\* SessionMetadata.remove: idempotent.
\* Mutant: remove leaves the record in place.
MetaRemove_Noop(d, n) == d

MetaRemove(d, n) == [x \in (DOMAIN d) \ {n} |-> d[x]]

\* --------------------------------------------------------- liveness probe
\* Path.exists() on the socket path.
SocketExists(h, n) == h[n] # "absent"

\* ShellKeeper.is_session_alive: exists, is a socket, and connect succeeds.
IsSessionAlive(h, n) == h[n] = "alive"

\* ------------------------------------------------- external multiplexer
\* How a foreground multiplexer call ends: the user detaches and the session
\* keeps running, or the shell inside exits and the multiplexer removes its
\* socket.
MuxOutcomes == {"detached", "exited"}

\* dtach -c <socket>: binds the socket (the handle comes into being at time
\* t), runs the shell in the foreground, and returns with outcome o.
MuxCreateHandle(h, n, o) ==
    [h EXCEPT ![n] = IF o = "detached" THEN "alive" ELSE "absent"]

MuxCreateMtime(mt, n, o, t) ==
    [mt EXCEPT ![n] = IF o = "detached" THEN t ELSE 0]

\* dtach -a <socket>: attaches to the listening socket and returns with
\* outcome o.
MuxAttachHandle(h, n, o) ==
    [h EXCEPT ![n] = IF o = "detached" THEN h[n] ELSE "absent"]

MuxAttachMtime(mt, n, o) ==
    [mt EXCEPT ![n] = IF o = "detached" THEN mt[n] ELSE 0]

\* ---------------------------------------------------------- list_sessions
\* The orders in which glob("*.sock") may yield the socket files.
ScanOrders(h) ==
    LET S == {n \in Names : SocketExists(h, n)}
    IN {s \in [1..Cardinality(S) -> S] : \A i, j \in DOMAIN s : s[i] = s[j] => i = j}

\* The dict list_sessions builds for an alive socket.
SessionEntry(mt, d, n) ==
    [name |-> n, last_active |-> mt[n],
     profile_name |-> MetaGet(d, n).profile_name,
     profile_uuid |-> MetaGet(d, n).profile_uuid,
     created |-> MetaGet(d, n).created]

\* sorted(sessions, key=last_active, reverse=True): a stable sort, so entries
\* with equal keys keep the order of the scan.
RECURSIVE InsertDesc(_, _)
InsertDesc(sorted, e) ==
    IF sorted = <<>> THEN <<e>>
    ELSE IF Head(sorted).last_active >= e.last_active
         THEN <<Head(sorted)>> \o InsertDesc(Tail(sorted), e)
         ELSE <<e>> \o sorted

RECURSIVE SortDesc(_)
SortDesc(s) ==
    IF s = <<>> THEN <<>>
    ELSE InsertDesc(SortDesc(SubSeq(s, 1, Len(s) - 1)), s[Len(s)])

\* The names list_sessions finds alive / dead, in scan order.
\* Mutant: every socket of the scan is listed, probed or not.
AliveInScan_All(h, scan) == scan

\* Mutant: the branches of the probe test are swapped.
AliveInScan_Swapped(h, scan) == SelectSeq(scan, LAMBDA n : ~IsSessionAlive(h, n))

AliveInScan(h, scan) == SelectSeq(scan, LAMBDA n : IsSessionAlive(h, n))

\* Mutant: dead sockets are not collected.
DeadInScan_Forgot(h, scan) == SubSeq(scan, 1, 0)

\* Mutant: every socket of the scan is taken for dead.
DeadInScan_All(h, scan) == scan

DeadInScan(h, scan) == SelectSeq(scan, LAMBDA n : ~IsSessionAlive(h, n))

\* The value list_sessions returns.
ListResult(h, mt, d, scan) ==
    LET alive == AliveInScan(h, scan)
    IN SortDesc([i \in DOMAIN alive |-> SessionEntry(mt, d, alive[i])])

\* Mutant: the dead sockets are left in the directory.
UnlinkAll_Keep(h, S) == h

\* sock_file.unlink(missing_ok=True) for every dead socket of the scan.
UnlinkAll(h, S) == [n \in Names |-> IF n \in S THEN "absent" ELSE h[n]]
ClearMtime(mt, S) == [n \in Names |-> IF n \in S THEN 0 ELSE mt[n]]

\* for name in dead_sessions: self.metadata.remove(name)
RECURSIVE RemoveEach(_, _)
RemoveEach(d, names) ==
    IF names = <<>> THEN d
    ELSE RemoveEach(MetaRemove(d, Head(names)), Tail(names))

SeqRange(s) == {s[i] : i \in DOMAIN s}

ListSessions(clean_dead) ==
    \E scan \in ScanOrders(handles) :
        LET dead == DeadInScan(handles, scan)
            res  == ListResult(handles, mtime, store, scan)
        IN /\ handles' = IF clean_dead THEN UnlinkAll(handles, SeqRange(dead))
                         ELSE handles
           /\ mtime' = IF clean_dead THEN ClearMtime(mtime, SeqRange(dead))
                       ELSE mtime
           /\ store' = IF clean_dead THEN RemoveEach(store, dead) ELSE store
           /\ last' = [Returned(IF clean_dead THEN "list_clean" ELSE "list",
                                None, None, TRUE, None)
                          EXCEPT !.list = [i \in DOMAIN res |-> res[i].name],
                                 !.entries = res,
                                 !.dead = SeqRange(dead)]
           /\ UNCHANGED now

\* --------------------------------------------------------- create_session
\* Mutant: only a live session blocks the creation.
CreateDeclined_ProbeOnly(h, n) == IsSessionAlive(h, n)

\* if socket_path.exists(): "already exists", return False.
CreateDeclined(h, n) == SocketExists(h, n)

CreateSession(n, pn, pu, o) ==
    IF CreateDeclined(handles, n)
    THEN /\ last' = Returned("create", n, None, FALSE, handles[n])
         /\ UNCHANGED <<handles, mtime, store, now>>
    ELSE /\ store' = MetaSet(store, n, pn, pu, now)
         /\ handles' = MuxCreateHandle(handles, n, o)
         /\ mtime' = MuxCreateMtime(mtime, n, o, now)
         /\ last' = [Returned("create", n, None, TRUE, handles[n])
                          EXCEPT !.mux = "create", !.ended = o]
         /\ UNCHANGED now

\* --------------------------------------------------------- attach_session
\* Mutant: attach does not probe the socket.
AttachOutcome_NoProbe(h, n) == IF ~SocketExists(h, n) THEN "not_found" ELSE "ok"

\* The two checks attach_session makes before it attaches.
AttachOutcome(h, n) ==
    IF ~SocketExists(h, n) THEN "not_found"
    ELSE IF ~IsSessionAlive(h, n) THEN "dead"
    ELSE "ok"

AttachSession(n, o) ==
    CASE AttachOutcome(handles, n) = "not_found" ->
         /\ last' = Returned("attach", n, None, FALSE, handles[n])
         /\ UNCHANGED <<handles, mtime, store, now>>
      [] AttachOutcome(handles, n) = "dead" ->
         /\ handles' = UnlinkAll(handles, {n})
         /\ mtime' = ClearMtime(mtime, {n})
         /\ store' = MetaRemove(store, n)
         /\ last' = Returned("attach", n, None, FALSE, handles[n])
         /\ UNCHANGED now
      [] OTHER ->
         /\ store' = MetaSet(store, n, MetaGet(store, n).profile_name,
                             MetaGet(store, n).profile_uuid, now)
         /\ handles' = MuxAttachHandle(handles, n, o)
         /\ mtime' = MuxAttachMtime(mtime, n, o)
         /\ last' = [Returned("attach", n, None, TRUE, handles[n])
                          EXCEPT !.mux = "attach", !.ended = o]
         /\ UNCHANGED now

\* ----------------------------------------------------------- kill_session
\* Mutant: kill requires a live probe.
KillFound_AliveOnly(h, n) == IsSessionAlive(h, n)

\* kill_session goes on when socket_path.exists().
KillFound(h, n) == SocketExists(h, n)

KillSession(n) ==
    IF ~KillFound(handles, n)
    THEN /\ last' = Returned("kill", n, None, FALSE, handles[n])
         /\ UNCHANGED <<handles, mtime, store, now>>
    ELSE /\ handles' = UnlinkAll(handles, {n})
         /\ mtime' = ClearMtime(mtime, {n})
         /\ store' = MetaRemove(store, n)
         /\ last' = Returned("kill", n, None, TRUE, handles[n])
         /\ UNCHANGED now

\* ------------------------------------------------------- set_session_note
\* Mutant: the note is set without looking for the socket.
NoteFound_Always(h, n) == TRUE

\* set_session_note goes on when socket_path.exists().
NoteFound(h, n) == SocketExists(h, n)

SetSessionNote(n, note) ==
    IF ~NoteFound(handles, n)
    THEN /\ last' = Returned("note", n, None, FALSE, handles[n])
         /\ UNCHANGED <<handles, mtime, store, now>>
    ELSE /\ store' = MetaSetNote(store, n, note)
         /\ last' = Returned("note", n, None, n \in DOMAIN store, handles[n])
         /\ UNCHANGED <<handles, mtime, now>>

\* --------------------------------------------------------- rename_session
\* old_socket.rename(new_socket): the file moves with its mtime.
\* Mutant: the socket is copied to the new name and stays under the old.
RenameHandle_Copy(h, a, b) == [h EXCEPT ![b] = h[a]]

RenameHandle(h, a, b) ==
    [n \in DOMAIN h |-> IF n = b THEN h[a] ELSE IF n = a THEN "absent" ELSE h[n]]

RenameMtime(mt, a, b) ==
    [n \in DOMAIN mt |-> IF n = b THEN mt[a] ELSE IF n = a THEN 0 ELSE mt[n]]

\* The metadata update of rename_session: when old_name has a record, remove
\* it and set() the new name with the old profile fields.
\* Mutant: the record of the old name is removed and none is written for
\* the new name.
RenameMeta_Drop(d, a, b, t) == MetaRemove(d, a)

RenameMeta(d, a, b, t) ==
    IF a \in DOMAIN d
    THEN MetaSet(MetaRemove(d, a), b, d[a].profile_name, d[a].profile_uuid, t)
    ELSE d

\* Mutant: the new name is not checked.
RenameOutcome_Overwrite(h, a, b) == IF ~SocketExists(h, a) THEN "not_found" ELSE "ok"

\* The two checks rename_session makes before it renames.
RenameOutcome(h, a, b) ==
    IF ~SocketExists(h, a) THEN "not_found"
    ELSE IF SocketExists(h, b) THEN "conflict"
    ELSE "ok"

RenameSession(a, b) ==
    IF RenameOutcome(handles, a, b) # "ok"
    THEN /\ last' = Returned("rename", a, b, FALSE, handles[a])
         /\ UNCHANGED <<handles, mtime, store, now>>
    ELSE /\ handles' = RenameHandle(handles, a, b)
         /\ mtime' = RenameMtime(mtime, a, b)
         /\ store' = RenameMeta(store, a, b, now)
         /\ last' = Returned("rename", a, b, TRUE, handles[a])
         /\ UNCHANGED now

\* ------------------------------------------------------------ environment
\* The clock advances.
Tick ==
    /\ now < MaxTime
    /\ now' = now + 1
    /\ last' = NoOp
    /\ UNCHANGED <<handles, mtime, store>>

\* The listener of a session goes away and leaves its socket file behind
\* (the probe's connect() is refused from now on).
SessionDies(n) ==
    /\ handles[n] = "alive"
    /\ handles' = [handles EXCEPT ![n] = "dead"]
    /\ last' = NoOp
    /\ UNCHANGED <<mtime, store, now>>

\* The socket file of a session disappears without this program's doing (the
\* shell of a detached session exits and the multiplexer removes its socket,
\* or the file is deleted out from under the session).
SocketVanishes(n) ==
    /\ handles[n] # "absent"
    /\ handles' = [handles EXCEPT ![n] = "absent"]
    /\ mtime' = [mtime EXCEPT ![n] = 0]
    /\ last' = NoOp
    /\ UNCHANGED <<store, now>>

\* ------------------------------------------- concurrent invocations of new
\* Two `sk new` processes interleave at the steps of create_session that
\* read or write the socket directory or the metadata file.
Procs == {1, 2}

\* A process that is not running.
\* Fields: where the process stands (pc), its command and arguments (op,
\* name, pn, pu, note, days), its in-memory copy of the metadata (data) and
\* the copy it loaded at its start (loaded), whether it has rewritten the
\* file (saved), its return value (ret, and killed for the bulk operations),
\* the result of its multiplexer call (mux), and for a bulk loop the
\* enumerated snapshot (snap), the items still to visit (todo) and the names
\* whose kill_session returned False (failed); also the metadata file as the
\* process found it (found) and the exception that ended it (raised).
NoInv == [pc |-> "idle", name |-> None, name2 |-> None, pn |-> None,
          pu |-> None,
          data |-> <<>>, ret |-> FALSE, mux |-> None,
          op |-> None, note |-> None, days |-> 0, loaded |-> <<>>,
          saved |-> FALSE, snap |-> <<>>, todo |-> <<>>, killed |-> <<>>,
          failed |-> {}, found |-> <<>>, raised |-> None]

\* ShellKeeper.__init__: SessionMetadata loads the metadata file.
RaceStart(p, n, pn, pu) ==
    /\ inv[p].pc = "idle"
    /\ inv' = [inv EXCEPT ![p] = [NoInv EXCEPT !.pc = "check", !.name = n,
                                               !.pn = pn, !.pu = pu,
                                               !.data = store]]
    /\ UNCHANGED <<handles, mtime, store, now, last>>

\* if socket_path.exists(): return False, session_name
RaceCheck(p) ==
    /\ inv[p].pc = "check"
    /\ inv' = [inv EXCEPT ![p].pc = IF CreateDeclined(handles, inv[p].name)
                                    THEN "done" ELSE "set",
                          ![p].ret = FALSE]
    /\ UNCHANGED <<handles, mtime, store, now, last>>

\* self.metadata.set(...): updates the process's copy and rewrites the file
\* with it.
RaceSetMeta(p) ==
    /\ inv[p].pc = "set"
    /\ LET d == MetaSet(inv[p].data, inv[p].name, inv[p].pn, inv[p].pu, now)
       IN /\ inv' = [inv EXCEPT ![p].pc = "mux", ![p].data = d]
          /\ store' = d
    /\ UNCHANGED <<handles, mtime, now, last>>

\* subprocess.run(["dtach", "-c", socket_path, ...]): the multiplexer binds
\* the socket, and fails when the path is already taken.
RaceMuxBind(p) ==
    /\ inv[p].pc = "mux"
    /\ IF SocketExists(handles, inv[p].name)
       THEN /\ inv' = [inv EXCEPT ![p].pc = "return", ![p].mux = "failed"]
            /\ UNCHANGED <<handles, mtime>>
       ELSE /\ inv' = [inv EXCEPT ![p].pc = "foreground", ![p].mux = "bound"]
            /\ handles' = MuxCreateHandle(handles, inv[p].name, "detached")
            /\ mtime' = MuxCreateMtime(mtime, inv[p].name, "detached", now)
    /\ UNCHANGED <<store, now, last>>

\* The foreground multiplexer call ends with outcome o.
RaceMuxEnd(p, o) ==
    /\ inv[p].pc = "foreground"
    /\ inv' = [inv EXCEPT ![p].pc = "return"]
    /\ handles' = MuxAttachHandle(handles, inv[p].name, o)
    /\ mtime' = MuxAttachMtime(mtime, inv[p].name, o)
    /\ UNCHANGED <<store, now, last>>

\* The value create_session returns once subprocess.run has returned.
CreateReturn(muxresult) == TRUE

\* return True, session_name
RaceReturn(p) ==
    /\ inv[p].pc = "return"
    /\ inv' = [inv EXCEPT ![p].pc = "done", ![p].ret = CreateReturn(inv[p].mux)]
    /\ UNCHANGED <<handles, mtime, store, now, last>>

\* ---------------------------------- concurrent writers of the metadata file
\* SessionMetadata._save: json.dump of the whole in-memory dict over the file;
\* the result is the new content of the file.
\* Mutant: the save keeps the entries the file already has.
Saved_KeepFile(file, d) ==
    [x \in (DOMAIN file) \cup (DOMAIN d) |-> IF x \in DOMAIN file THEN file[x] ELSE d[x]]

Saved(file, d) == d

\* The store mutations a process may run: set() and set_note().
StoreOps == {"set", "set_note"}

\* SessionMetadata.__init__: the process loads the file, to run op on n.
StoreLoad(p, o, n, pn, pu, note) ==
    /\ inv[p].pc = "idle"
    /\ inv' = [inv EXCEPT ![p] = [NoInv EXCEPT !.pc = "loaded", !.op = o,
                                               !.name = n, !.pn = pn, !.pu = pu,
                                               !.note = note, !.data = store,
                                               !.loaded = store]]
    /\ UNCHANGED <<handles, mtime, store, now, last>>

\* The process runs set() or set_note() on its copy; both end with _save()
\* (set_note only when the record exists).
StoreMutate(p) ==
    /\ inv[p].pc = "loaded"
    /\ LET n == inv[p].name
           d == IF inv[p].op = "set"
                THEN MetaSet(inv[p].data, n, inv[p].pn, inv[p].pu, now)
                ELSE MetaSetNote(inv[p].data, n, inv[p].note)
           saves == inv[p].op = "set" \/ n \in DOMAIN inv[p].data
       IN /\ inv' = [inv EXCEPT ![p].pc = "done", ![p].data = d,
                                ![p].saved = saves, ![p].ret = saves]
          /\ store' = IF saves THEN Saved(store, d) ELSE store
          /\ last' = IF saves THEN Returned("save", n, None, TRUE, None) ELSE last
    /\ UNCHANGED <<handles, mtime, now>>

\* A metadata file with a record for every name, written at time 0.
FullStore == [n \in Names |-> [EmptyRec EXCEPT !.created = 0, !.last_attached = 0]]

\* The two processes start on an empty or on a populated file, later than
\* the records were written.
StoreInit ==
    /\ handles = [n \in Names |-> "absent"]
    /\ mtime = [n \in Names |-> 0]
    /\ store \in {<<>>, FullStore}
    /\ now = MaxTime
    /\ last = NoOp
    /\ inv = [p \in Procs |-> NoInv]

StoreNext ==
    \/ \E p \in Procs, n \in Names, a \in ProfileArgs :
           StoreLoad(p, "set", n, a[1], a[2], None)
    \/ \E p \in Procs, n \in Names, t \in Notes \cup {None} :
           StoreLoad(p, "set_note", n, None, None, t)
    \/ \E p \in Procs : StoreMutate(p)

SpecStore == StoreInit /\ [][StoreNext]_vars

\* ------------------------------------------------------- bulk operations
\* fnmatch.fnmatch(name, pattern) for the patterns in use: "*" matches every
\* name, a pattern without wildcard matches itself only.
Fnmatch(n, pat) == pat = "*" \/ pat = n

Patterns == Names \cup {"*"}

\* The days argument of `sk cleanup`.
MaxIdle == 1
IdleDays == 0..MaxIdle

\* Mutant: the comparison with the cutoff is turned around.
IsIdle_Reversed(la, cutoff) == la > cutoff

\* Mutant: a session attached exactly at the cutoff counts as idle.
IsIdle_Le(la, cutoff) == la <= cutoff

\* if last_attached < cutoff
IsIdle(la, cutoff) == la < cutoff

\* Mutant: a record without last_attached counts as attached at time 0.
HasLastAttached_Any(rec) == TRUE

\* if last_attached_str:
HasLastAttached(rec) == rec.last_attached # NoTime

\* Does the loop of the bulk operation call kill_session for n?  d is the
\* metadata the invocation holds, t the time the cutoff was computed at.
Targeted(kind, arg, d, n, t) ==
    CASE kind = "kill_all" -> TRUE
      [] kind = "kill_pattern" -> Fnmatch(n, arg)
      [] kind = "cleanup" -> /\ HasLastAttached(MetaGet(d, n))
                             /\ IsIdle(MetaGet(d, n).last_attached, t - arg)

\* The invocation of a bulk operation that runs in SpecBulk.
BulkProc == 1

\* The argument a finished or running bulk invocation was given.
BulkArg(i) == IF i.op = "kill_pattern" THEN i.name ELSE i.days

\* The operation starts: __init__ loads the metadata and
\* list_sessions(clean_dead=False) enumerates the live sessions.
BulkStart(kind, arg) ==
    /\ inv[BulkProc].pc = "idle"
    /\ \E scan \in ScanOrders(handles) :
         LET res == ListResult(handles, mtime, store, scan)
             names == [i \in DOMAIN res |-> res[i].name]
         IN inv' = [inv EXCEPT ![BulkProc] =
                [NoInv EXCEPT !.pc = "loop", !.op = kind,
                              !.name = IF kind = "kill_pattern" THEN arg ELSE None,
                              !.days = IF kind = "cleanup" THEN arg ELSE 0,
                              !.data = store, !.loaded = store,
                              !.snap = names, !.todo = names]]
    /\ UNCHANGED <<handles, mtime, store, now, last>>

\* One turn of the loop up to kill_session's socket_path.exists(): an item
\* that is not targeted is passed over; for a targeted item whose socket is
\* gone kill_session returns False and the name is appended all the same.
BulkVisit ==
    LET i == inv[BulkProc]
        n == Head(i.todo)
    IN /\ i.pc = "loop"
       /\ i.todo # <<>>
       /\ inv' = [inv EXCEPT ![BulkProc] =
               IF ~Targeted(i.op, BulkArg(i), i.data, n, now)
               THEN [i EXCEPT !.todo = Tail(i.todo)]
               ELSE IF ~KillFound(handles, n)
               THEN [i EXCEPT !.todo = Tail(i.todo),
                              !.killed = Append(i.killed, n),
                              !.failed = i.failed \cup {n}]
               ELSE [i EXCEPT !.pc = "unlink"]]
       /\ UNCHANGED <<handles, mtime, store, now, last>>

\* socket_path.unlink() (no missing_ok): FileNotFoundError when the file went
\* away since exists(); nothing catches it and the invocation ends there.
\* Otherwise metadata.remove, kill_session returns True, the name is appended.
BulkUnlink ==
    LET i == inv[BulkProc]
        n == Head(i.todo)
        d == MetaRemove(i.data, n)
    IN /\ i.pc = "unlink"
       /\ IF ~SocketExists(handles, n)
          THEN /\ inv' = [inv EXCEPT ![BulkProc] = [i EXCEPT !.pc = "crashed"]]
               /\ UNCHANGED <<handles, mtime, store>>
          ELSE /\ handles' = UnlinkAll(handles, {n})
               /\ mtime' = ClearMtime(mtime, {n})
               /\ store' = IF n \in DOMAIN i.data THEN Saved(store, d) ELSE store
               /\ inv' = [inv EXCEPT ![BulkProc] =
                       [i EXCEPT !.pc = "loop", !.data = d,
                                 !.saved = i.saved \/ n \in DOMAIN i.data,
                                 !.todo = Tail(i.todo),
                                 !.killed = Append(i.killed, n)]]
       /\ UNCHANGED <<now, last>>

\* The loop is over: return killed.
BulkReturn ==
    /\ inv[BulkProc].pc = "loop"
    /\ inv[BulkProc].todo = <<>>
    /\ inv' = [inv EXCEPT ![BulkProc].pc = "done", ![BulkProc].ret = TRUE]
    /\ UNCHANGED <<handles, mtime, store, now, last>>

\* Records as create_session writes them at time 0.
BulkStores ==
    LET rec == [EmptyRec EXCEPT !.created = 0, !.last_attached = 0]
    IN UNION {[S -> {rec}] : S \in SUBSET Names}

BulkInit ==
    /\ handles \in [Names -> {"absent", "alive", "dead"}]
    /\ mtime = [n \in Names |-> 0]
    /\ store \in BulkStores
    /\ now = MaxTime
    /\ last = NoOp
    /\ inv = [p \in Procs |-> NoInv]

\* A bulk invocation, with sockets going away under it at any point.
BulkNext ==
    \/ BulkStart("kill_all", 0)
    \/ \E pat \in Patterns : BulkStart("kill_pattern", pat)
    \/ \E d \in IdleDays : BulkStart("cleanup", d)
    \/ BulkVisit
    \/ BulkUnlink
    \/ BulkReturn
    \/ \E n \in Names : SocketVanishes(n) /\ UNCHANGED inv

SpecBulk == BulkInit /\ [][BulkNext]_vars

\* kill_sessions_by_pattern in one invocation while another invocation runs
\* create_session.
SnapProc == 2

SnapNext ==
    \/ \E pat \in Patterns : BulkStart("kill_pattern", pat)
    \/ BulkVisit
    \/ BulkUnlink
    \/ BulkReturn
    \/ \E n \in Names : RaceStart(SnapProc, n, "Dark", "u1")
    \/ RaceCheck(SnapProc)
    \/ RaceSetMeta(SnapProc)
    \/ RaceMuxBind(SnapProc)
    \/ \E o \in MuxOutcomes : RaceMuxEnd(SnapProc, o)
    \/ RaceReturn(SnapProc)

SpecSnap == BulkInit /\ [][SnapNext]_vars

\* ---------------------------------------------------- list_sessions, stepwise
\* list_sessions(clean_dead=True) in one invocation while another runs
\* create_session. todo holds the sockets of the glob still to probe, snap the
\* names appended to sessions, killed the names appended to dead_sessions.
ReapProc == 1

\* Mutant: the probe connects with a blocking socket and waits on a handle
\* that does not answer.
ProbeReturns_Blocking(h, n) == h[n] # "dead"

\* Does is_session_alive return on handle n? It connects with
\* setblocking(False) and turns every socket.error and OSError into False, so
\* it returns whatever the state of the handle.
ProbeReturns(h, n) == TRUE

\* __init__ loads the metadata; the glob yields the sockets in some order.
ReapStart ==
    /\ inv[ReapProc].pc = "idle"
    /\ \E scan \in ScanOrders(handles) :
         inv' = [inv EXCEPT ![ReapProc] =
                    [NoInv EXCEPT !.pc = "scan", !.op = "list_clean",
                                  !.data = store, !.loaded = store,
                                  !.todo = scan]]
    /\ UNCHANGED <<handles, mtime, store, now, last>>

\* One turn of the for loop: the probe, then sessions.append, or
\* dead_sessions.append and sock_file.unlink(missing_ok=True).
ReapProbe ==
    LET i == inv[ReapProc]
        n == Head(i.todo)
    IN /\ i.pc = "scan"
       /\ i.todo # <<>>
       /\ ProbeReturns(handles, n)
       /\ IF IsSessionAlive(handles, n)
          THEN /\ inv' = [inv EXCEPT ![ReapProc] =
                          [i EXCEPT !.todo = Tail(i.todo),
                                    !.snap = Append(i.snap, n)]]
               /\ UNCHANGED <<handles, mtime>>
          ELSE /\ inv' = [inv EXCEPT ![ReapProc] =
                          [i EXCEPT !.todo = Tail(i.todo),
                                    !.killed = Append(i.killed, n)]]
               /\ handles' = UnlinkAll(handles, {n})
               /\ mtime' = ClearMtime(mtime, {n})
       /\ UNCHANGED <<store, now, last>>

\* The glob is exhausted: on to the loop over dead_sessions.
ReapScanned ==
    /\ inv[ReapProc].pc = "scan"
    /\ inv[ReapProc].todo = <<>>
    /\ inv' = [inv EXCEPT ![ReapProc].pc = "forget",
                          ![ReapProc].todo = inv[ReapProc].killed]
    /\ UNCHANGED <<handles, mtime, store, now, last>>

\* self.metadata.remove(name) for one name of dead_sessions: the record is
\* deleted from the invocation's copy and the file rewritten with the copy.
ReapForget ==
    LET i == inv[ReapProc]
        n == Head(i.todo)
        d == MetaRemove(i.data, n)
    IN /\ i.pc = "forget"
       /\ i.todo # <<>>
       /\ store' = IF n \in DOMAIN i.data THEN Saved(store, d) ELSE store
       /\ inv' = [inv EXCEPT ![ReapProc] =
                     [i EXCEPT !.todo = Tail(i.todo), !.data = d,
                               !.saved = i.saved \/ n \in DOMAIN i.data]]
       /\ UNCHANGED <<handles, mtime, now, last>>

\* return sorted(sessions, ...)
ReapReturn ==
    /\ inv[ReapProc].pc = "forget"
    /\ inv[ReapProc].todo = <<>>
    /\ inv' = [inv EXCEPT ![ReapProc].pc = "done", ![ReapProc].ret = TRUE]
    /\ UNCHANGED <<handles, mtime, store, now, last>>

ReapNext ==
    \/ ReapStart
    \/ ReapProbe
    \/ ReapScanned
    \/ ReapForget
    \/ ReapReturn
    \/ \E n \in Names : RaceStart(SnapProc, n, "Dark", "u1")
    \/ RaceCheck(SnapProc)
    \/ RaceSetMeta(SnapProc)
    \/ RaceMuxBind(SnapProc)
    \/ \E o \in MuxOutcomes : RaceMuxEnd(SnapProc, o)
    \/ RaceReturn(SnapProc)

SpecReap == BulkInit /\ [][ReapNext]_vars

\* ------------------------------------- bulk operations, run undisturbed
\* kill_session(n) inside a bulk loop, and the append that follows it whatever
\* kill_session returned.  st holds the socket directory (h, mt), the
\* metadata (d) and the list built so far (killed).
KillStep(st, n) ==
    IF ~KillFound(st.h, n)
    THEN [st EXCEPT !.killed = Append(st.killed, n)]
    ELSE [h |-> UnlinkAll(st.h, {n}), mt |-> ClearMtime(st.mt, {n}),
          d |-> MetaRemove(st.d, n), killed |-> Append(st.killed, n)]

\* for session in sessions: ...
RECURSIVE BulkLoop(_, _, _, _, _)
BulkLoop(st, todo, kind, arg, t) ==
    IF todo = <<>> THEN st
    ELSE BulkLoop(IF Targeted(kind, arg, st.d, Head(todo), t)
                  THEN KillStep(st, Head(todo)) ELSE st,
                  Tail(todo), kind, arg, t)

\* kill_all_sessions, kill_sessions_by_pattern and cleanup_idle_sessions:
\* enumerate with list_sessions(clean_dead=False), then loop.
BulkKill(kind, arg) ==
    \E scan \in ScanOrders(handles) :
        LET res == ListResult(handles, mtime, store, scan)
            st  == BulkLoop([h |-> handles, mt |-> mtime, d |-> store,
                             killed |-> <<>>],
                            [i \in DOMAIN res |-> res[i].name], kind, arg, now)
        IN /\ handles' = st.h
           /\ mtime' = st.mt
           /\ store' = st.d
           /\ last' = [Returned(kind, IF kind = "kill_pattern" THEN arg ELSE None,
                                None, TRUE, None)
                          EXCEPT !.list = st.killed,
                                 !.days = IF kind = "cleanup" THEN arg ELSE 0]
           /\ UNCHANGED now

KillAllSessions == BulkKill("kill_all", 0)

KillSessionsByPattern(pat) == BulkKill("kill_pattern", pat)

CleanupIdleSessions(days) == BulkKill("cleanup", days)

\* ------------------------------------------------------- get_session_info
\* Returns None without a socket file, else a dict whose "alive" is the
\* probe's answer; nothing is written.
GetSessionInfo(n) ==
    /\ last' = Returned("info", n, None, SocketExists(handles, n), handles[n])
    /\ UNCHANGED <<handles, mtime, store, now>>

\* -------------------------------------------------------- restore_session
\* Declines without a socket file or when the probe fails; else it starts a
\* terminal that will run `sk attach` on its own, and returns True.
RestoreSession(n) ==
    /\ last' = IF AttachOutcome(handles, n) = "ok"
               THEN [Returned("restore", n, None, TRUE, handles[n])
                        EXCEPT !.mux = "terminal"]
               ELSE Returned("restore", n, None, FALSE, handles[n])
    /\ UNCHANGED <<handles, mtime, store, now>>

\* ---------------------------------------------------------- start_logging
\* Declines without a socket file or when the probe fails; else it runs
\* `script ... dtach -a` in the foreground; the metadata is not touched.
StartLogging(n, o) ==
    IF AttachOutcome(handles, n) # "ok"
    THEN /\ last' = Returned("log", n, None, FALSE, handles[n])
         /\ UNCHANGED <<handles, mtime, store, now>>
    ELSE /\ handles' = MuxAttachHandle(handles, n, o)
         /\ mtime' = MuxAttachMtime(mtime, n, o)
         /\ last' = [Returned("log", n, None, TRUE, handles[n])
                        EXCEPT !.mux = "attach", !.ended = o]
         /\ UNCHANGED <<store, now>>

\* ---------------------------------------------- SessionMetadata.import_data
\* The documents fed to `sk metadata import`: one written by hand, whose
\* records have a creation time and no last_attached.
ImportDocs ==
    {[version |-> 1, sessions |-> [n \in Names |-> [EmptyRec EXCEPT !.created = 0]]]}

\* A document that lacks the "sessions" key.
NoSessionsDoc == [version |-> 1]

\* SessionMetadata.export_data at time t.  The document goes through
\* json.dumps and json.load on its way to import_data; its keys are strings
\* and its values strings or null, which both directions map to themselves.
ExportData(d, t) == [version |-> 1, exported |-> t, sessions |-> d]

\* The names import_data takes from doc.
\* Mutant: force is ignored.
ImportTaken_NoForce(d, doc, force) == {n \in DOMAIN doc : n \notin DOMAIN d}

\* Mutant: existing names are overwritten without force.
ImportTaken_All(d, doc, force) == DOMAIN doc

ImportTaken(d, doc, force) == {n \in DOMAIN doc : n \notin DOMAIN d \/ force}

ImportData(data, force) ==
    IF "sessions" \notin DOMAIN data
    THEN /\ last' = [Returned("import", None, None, FALSE, None)
                        EXCEPT !.raised = "ValueError",
                               !.doc = data, !.force = force]
         /\ UNCHANGED <<handles, mtime, store, now>>
    ELSE LET doc == data.sessions
             taken == ImportTaken(store, doc, force)
         IN /\ store' = [n \in (DOMAIN store) \cup taken |->
                             IF n \in taken THEN doc[n] ELSE store[n]]
            /\ last' = [Returned("import", None, None, TRUE, None)
                           EXCEPT !.imported = Cardinality(taken),
                                  !.skipped = Cardinality(DOMAIN doc)
                                                 - Cardinality(taken),
                                  !.doc = data, !.force = force]
            /\ UNCHANGED <<handles, mtime, now>>

\* ------------------------------------ calls on the SessionMetadata object
\* SessionMetadata.clean: the records whose name is in active_sessions stay.
\* Mutant: the test is turned around.
MetaClean_Inverted(d, active) == [x \in (DOMAIN d) \ active |-> d[x]]

\* Mutant: clean removes nothing.
MetaClean_Nothing(d, active) == d

MetaClean(d, active) == [x \in (DOMAIN d) \cap active |-> d[x]]

\* to_remove of SessionMetadata.clean.
CleanRemoved(d, active) == (DOMAIN d) \ active

\* metadata.set(n, pn, pu)
MetadataSet(n, pn, pu) ==
    /\ store' = MetaSet(store, n, pn, pu, now)
    /\ last' = [Returned("set", n, None, TRUE, None) EXCEPT !.pn = pn, !.pu = pu]
    /\ UNCHANGED <<handles, mtime, now>>

\* metadata.set_note(n, note), note being a text or None
MetadataSetNote(n, note) ==
    /\ store' = MetaSetNote(store, n, note)
    /\ last' = [Returned("set_note", n, None, n \in DOMAIN store, None)
                   EXCEPT !.note = note]
    /\ UNCHANGED <<handles, mtime, now>>

\* metadata.remove(n)
MetadataRemove(n) ==
    /\ store' = MetaRemove(store, n)
    /\ last' = Returned("remove", n, None, TRUE, None)
    /\ UNCHANGED <<handles, mtime, now>>

\* metadata.clean(active)
MetadataClean(active) ==
    /\ store' = MetaClean(store, active)
    /\ last' = [Returned("clean", None, None, TRUE, None)
                   EXCEPT !.active = active,
                          !.removed = CleanRemoved(store, active)]
    /\ UNCHANGED <<handles, mtime, now>>

\* A session started by other means than this program (dtach run by hand):
\* a live socket in the directory, and no record written for it.
ExternalSession(n) ==
    /\ ~SocketExists(handles, n)
    /\ handles' = [handles EXCEPT ![n] = "alive"]
    /\ mtime' = [mtime EXCEPT ![n] = now]
    /\ last' = NoOp
    /\ UNCHANGED <<store, now>>

\* ------------------------------------------- loading a damaged metadata file
\* What the metadata file may hold in place of a JSON object: text cut short
\* or otherwise not JSON ("truncated"), bytes that are not UTF-8 ("binary"),
\* JSON that is not an object, such as [] or null ("not_object"); or the
\* path cannot be opened for reading ("unreadable").
CorruptKinds == {"truncated", "binary", "not_object", "unreadable"}

\* The variable store holds the file: the mapping it encodes, or Corrupt(k).
Corrupt(k) == [corrupt |-> k]

IsCorrupt(file) == "corrupt" \in DOMAIN file

\* SessionMetadata._load: json.load of the file; JSONDecodeError and IOError
\* are caught and give {}.  UnicodeDecodeError is neither and leaves _load;
\* JSON that is not an object is returned as it is.
LoadRaises(file) == IsCorrupt(file) /\ file.corrupt = "binary"

LoadData(file) ==
    IF IsCorrupt(file) /\ file.corrupt \in {"truncated", "unreadable"}
    THEN <<>>
    ELSE file

\* How open(metadata_file, 'w') in _save may end: a path that could not be
\* opened for reading may or may not open for writing (a write-only file
\* does, a directory does not).
SaveOutcomes(file) ==
    IF IsCorrupt(file) /\ file.corrupt = "unreadable"
    THEN {"written", "raises"} ELSE {"written"}

\* The invocation that runs in SpecLoad.
LoadProc == 1

\* ShellKeeper.__init__ builds SessionMetadata, which loads the file; the
\* command will run op on n.
FileLoad(o, n, pn, pu, note) ==
    /\ inv[LoadProc].pc = "idle"
    /\ inv' = [inv EXCEPT ![LoadProc] =
            IF LoadRaises(store)
            THEN [NoInv EXCEPT !.pc = "crashed", !.op = o, !.name = n,
                               !.pn = pn, !.pu = pu, !.note = note,
                               !.found = store, !.raised = "UnicodeDecodeError"]
            ELSE [NoInv EXCEPT !.pc = "loaded", !.op = o, !.name = n,
                               !.pn = pn, !.pu = pu, !.note = note,
                               !.found = store, !.data = LoadData(store),
                               !.loaded = LoadData(store)]]
    /\ UNCHANGED <<handles, mtime, store, now, last>>

\* set() or set_note() on what _load returned.  On a value that is not a
\* dict the membership test or the item assignment raises TypeError before
\* _save; else the dict is updated and _save rewrites the file, if the file
\* opens for writing.
FileMutate(w) ==
    LET i == inv[LoadProc]
        n == i.name
    IN /\ i.pc = "loaded"
       /\ w \in SaveOutcomes(store)
       /\ IF IsCorrupt(i.data)
          THEN /\ inv' = [inv EXCEPT ![LoadProc].pc = "crashed",
                                     ![LoadProc].raised = "TypeError"]
               /\ UNCHANGED store
          ELSE LET d == IF i.op = "set" THEN MetaSet(i.data, n, i.pn, i.pu, now)
                        ELSE MetaSetNote(i.data, n, i.note)
                   saves == i.op = "set" \/ n \in DOMAIN i.data
               IN IF saves /\ w = "raises"
                  THEN /\ inv' = [inv EXCEPT ![LoadProc].pc = "crashed",
                                             ![LoadProc].data = d,
                                             ![LoadProc].raised = "OSError"]
                       /\ UNCHANGED store
                  ELSE /\ inv' = [inv EXCEPT ![LoadProc].pc = "done",
                                             ![LoadProc].data = d,
                                             ![LoadProc].saved = saves,
                                             ![LoadProc].ret = saves]
                       /\ store' = IF saves THEN Saved(store, d) ELSE store
       /\ UNCHANGED <<handles, mtime, now, last>>

\* The invocation starts on a sound file, empty or populated, or on a
\* damaged one.
LoadInit ==
    /\ handles = [n \in Names |-> "absent"]
    /\ mtime = [n \in Names |-> 0]
    /\ store \in {<<>>, FullStore} \cup {Corrupt(k) : k \in CorruptKinds}
    /\ now = MaxTime
    /\ last = NoOp
    /\ inv = [p \in Procs |-> NoInv]

LoadNext ==
    \/ \E n \in Names, a \in ProfileArgs : FileLoad("set", n, a[1], a[2], None)
    \/ \E n \in Names, t \in Notes \cup {None} : FileLoad("set_note", n, None, None, t)
    \/ \E w \in {"written", "raises"} : FileMutate(w)

SpecLoad == LoadInit /\ [][LoadNext]_vars

\* ------------------------------------- one invocation of new or attach, by steps
\* The invocation that runs in SpecSteps: create_session by the steps above,
\* or attach_session by the steps below; it may be stopped for good once it
\* has written the metadata.
StepProc == 1

\* attach_session(n) starts: __init__ has loaded the metadata.
AttachStart(n) ==
    /\ inv[StepProc].pc = "idle"
    /\ inv' = [inv EXCEPT ![StepProc] =
            [NoInv EXCEPT !.pc = "probe", !.op = "attach", !.name = n,
                          !.data = store, !.loaded = store, !.found = store]]
    /\ UNCHANGED <<handles, mtime, store, now, last>>

\* The two checks of attach_session: without a socket file it returns False;
\* on a socket that fails the probe it unlinks the file, removes the record
\* and returns False.
AttachProbe ==
    LET i == inv[StepProc]
        n == i.name
        d == MetaRemove(i.data, n)
    IN /\ i.pc = "probe"
       /\ CASE AttachOutcome(handles, n) = "not_found" ->
               /\ inv' = [inv EXCEPT ![StepProc].pc = "done"]
               /\ UNCHANGED <<handles, mtime, store>>
            [] AttachOutcome(handles, n) = "dead" ->
               /\ handles' = UnlinkAll(handles, {n})
               /\ mtime' = ClearMtime(mtime, {n})
               /\ store' = IF n \in DOMAIN i.data THEN Saved(store, d) ELSE store
               /\ inv' = [inv EXCEPT ![StepProc].pc = "done",
                                     ![StepProc].data = d,
                                     ![StepProc].saved = n \in DOMAIN i.data]
            [] OTHER ->
               /\ inv' = [inv EXCEPT ![StepProc].pc = "refresh"]
               /\ UNCHANGED <<handles, mtime, store>>
       /\ UNCHANGED <<now, last>>

\* self.metadata.set(session_name, meta.get("profile_name"),
\* meta.get("profile_uuid")), which ends with _save.
AttachRefresh ==
    LET i == inv[StepProc]
        n == i.name
        d == MetaSet(i.data, n, MetaGet(i.data, n).profile_name,
                     MetaGet(i.data, n).profile_uuid, now)
    IN /\ i.pc = "refresh"
       /\ inv' = [inv EXCEPT ![StepProc].pc = "attach_mux",
                             ![StepProc].data = d, ![StepProc].saved = TRUE]
       /\ store' = Saved(store, d)
       /\ UNCHANGED <<handles, mtime, now, last>>

\* subprocess.run(["dtach", "-a", socket_path, ...]) is started.
AttachMuxStart ==
    /\ inv[StepProc].pc = "attach_mux"
    /\ inv' = [inv EXCEPT ![StepProc].pc = "attached", ![StepProc].mux = "attach"]
    /\ UNCHANGED <<handles, mtime, store, now, last>>

\* The multiplexer call ends with outcome o; attach_session returns True.
AttachMuxEnd(o) ==
    /\ inv[StepProc].pc = "attached"
    /\ inv' = [inv EXCEPT ![StepProc].pc = "done", ![StepProc].ret = TRUE]
    /\ handles' = MuxAttachHandle(handles, inv[StepProc].name, o)
    /\ mtime' = MuxAttachMtime(mtime, inv[StepProc].name, o)
    /\ UNCHANGED <<store, now, last>>

\* The process is ended from outside (SIGKILL, power loss) after the
\* metadata was written, before or while the multiplexer runs.
StepStop ==
    /\ inv[StepProc].pc \in {"mux", "foreground", "attach_mux", "attached"}
    /\ inv' = [inv EXCEPT ![StepProc].pc = "stopped"]
    /\ UNCHANGED <<handles, mtime, store, now, last>>

\* Records as an earlier create and note left them.
StepStores ==
    LET rec == [created |-> 0, last_attached |-> 0, profile_name |-> "Dark",
                profile_uuid |-> "u1", note |-> "testing"]
    IN UNION {[S -> {rec}] : S \in SUBSET Names}

StepsInit ==
    /\ handles \in [Names -> {"absent", "alive", "dead"}]
    /\ mtime = [n \in Names |-> 0]
    /\ store \in StepStores
    /\ now = MaxTime
    /\ last = NoOp
    /\ inv = [p \in Procs |-> NoInv]

StepsNext ==
    \/ \E n \in Names, a \in ProfileArgs : RaceStart(StepProc, n, a[1], a[2])
    \/ RaceCheck(StepProc)
    \/ RaceSetMeta(StepProc)
    \/ RaceMuxBind(StepProc)
    \/ \E o \in MuxOutcomes : RaceMuxEnd(StepProc, o)
    \/ RaceReturn(StepProc)
    \/ \E n \in Names : AttachStart(n)
    \/ AttachProbe
    \/ AttachRefresh
    \/ AttachMuxStart
    \/ \E o \in MuxOutcomes : AttachMuxEnd(o)
    \/ StepStop

SpecSteps == StepsInit /\ [][StepsNext]_vars

\* ------------------------------------------------------ start_logging, stepwise
LogStart(n) ==
    /\ inv[StepProc].pc = "idle"
    /\ inv' = [inv EXCEPT ![StepProc] =
            [NoInv EXCEPT !.pc = "log_probe", !.op = "log", !.name = n,
                          !.data = store, !.loaded = store]]
    /\ UNCHANGED <<handles, mtime, store, now, last>>

\* The two checks of start_logging: without a socket file, or on a socket
\* that fails the probe, it returns False.
LogProbe ==
    /\ inv[StepProc].pc = "log_probe"
    /\ ProbeReturns(handles, inv[StepProc].name)
    /\ inv' = [inv EXCEPT ![StepProc].pc =
                   IF AttachOutcome(handles, inv[StepProc].name) = "ok"
                   THEN "log_mux" ELSE "done"]
    /\ UNCHANGED <<handles, mtime, store, now, last>>

\* subprocess.run(["script", ..., "-c", "dtach -a ..."]) is started.
LogMuxStart ==
    /\ inv[StepProc].pc = "log_mux"
    /\ inv' = [inv EXCEPT ![StepProc].pc = "logging", ![StepProc].mux = "attach"]
    /\ UNCHANGED <<handles, mtime, store, now, last>>

\* The multiplexer call ends with outcome o; start_logging returns True.
LogMuxEnd(o) ==
    /\ inv[StepProc].pc = "logging"
    /\ inv' = [inv EXCEPT ![StepProc].pc = "done", ![StepProc].ret = TRUE]
    /\ handles' = MuxAttachHandle(handles, inv[StepProc].name, o)
    /\ mtime' = MuxAttachMtime(mtime, inv[StepProc].name, o)
    /\ UNCHANGED <<store, now, last>>

\* ------------------------------------------------------------ termination
\* One invocation of an enumerating operation (list_sessions, kill_all,
\* kill_pattern, cleanup_idle) or of create, attach or start_logging, taken
\* statement by statement, while sessions die and sockets go away.
\* TermSteps are the steps the invocation takes by itself; the end of the
\* multiplexer process it waits for is not one of them.
TermSteps ==
    \/ BulkVisit
    \/ BulkUnlink
    \/ BulkReturn
    \/ ReapProbe
    \/ ReapScanned
    \/ ReapForget
    \/ ReapReturn
    \/ RaceCheck(StepProc)
    \/ RaceSetMeta(StepProc)
    \/ RaceMuxBind(StepProc)
    \/ RaceReturn(StepProc)
    \/ AttachProbe
    \/ AttachRefresh
    \/ AttachMuxStart
    \/ LogProbe
    \/ LogMuxStart

TermNext ==
    \/ BulkStart("kill_all", 0)
    \/ \E pat \in Patterns : BulkStart("kill_pattern", pat)
    \/ \E d \in IdleDays : BulkStart("cleanup", d)
    \/ ReapStart
    \/ \E n \in Names : RaceStart(StepProc, n, "Dark", "u1")
    \/ \E n \in Names : AttachStart(n)
    \/ \E n \in Names : LogStart(n)
    \/ TermSteps
    \/ \E o \in MuxOutcomes : RaceMuxEnd(StepProc, o)
    \/ \E o \in MuxOutcomes : AttachMuxEnd(o)
    \/ \E o \in MuxOutcomes : LogMuxEnd(o)
    \/ \E n \in Names : SessionDies(n) /\ UNCHANGED inv
    \/ \E n \in Names : SocketVanishes(n) /\ UNCHANGED inv

\* A running process executes its next statement; nothing makes the
\* multiplexer process end.
SpecTerm == BulkInit /\ [][TermNext]_vars /\ WF_vars(TermSteps)

\* ------------------------------------------------------- clean commands
\* The `clean` command of main: list_sessions(clean_dead=True), then
\* metadata.clean over the names list_sessions(clean_dead=False) returns.
CleanCommand ==
    \E scan \in ScanOrders(handles) :
        LET dead   == DeadInScan(handles, scan)
            h1     == UnlinkAll(handles, SeqRange(dead))
            d1     == RemoveEach(store, dead)
            active == {n \in Names : IsSessionAlive(h1, n)}
        IN /\ handles' = h1
           /\ mtime' = ClearMtime(mtime, SeqRange(dead))
           /\ store' = MetaClean(d1, active)
           /\ last' = [Returned("clean_cmd", None, None, TRUE, None)
                          EXCEPT !.dead = SeqRange(dead),
                                 !.active = active,
                                 !.removed = CleanRemoved(d1, active)]
           /\ UNCHANGED now

\* The `metadata clean` command of main: metadata.clean over the names
\* list_sessions(clean_dead=False) returns.
MetadataCleanCommand ==
    LET active == {n \in Names : IsSessionAlive(handles, n)}
    IN /\ store' = MetaClean(store, active)
       /\ last' = [Returned("metadata_clean_cmd", None, None, TRUE, None)
                      EXCEPT !.active = active,
                             !.removed = CleanRemoved(store, active)]
       /\ UNCHANGED <<handles, mtime, now>>

\* ------------------------------------------------------------------- main
\* The exit status of the process once main has dispatched the command op
\* and the operation has returned ret: main calls sys.exit(1) when
\* set_session_note fails, and falls off its end, with status 0, after
\* attach, kill <name>, rename, info and the other commands whatever they
\* returned.
MainExit(op, ret) == IF op = "note" /\ ~ret THEN 1 ELSE 0

\* ---------------------------------------------------------------- Init
Init ==
    /\ handles = [n \in Names |-> "absent"]
    /\ mtime = [n \in Names |-> 0]
    /\ store = <<>>
    /\ now = 0
    /\ last = NoOp
    /\ inv = [p \in Procs |-> NoInv]

\* The invocation that reported its result exits.
Exit ==
    /\ last # NoOp
    /\ last' = NoOp
    /\ UNCHANGED <<handles, mtime, store, now, inv>>

\* One invocation at a time: an operation starts when none is reporting.
Idle == last = NoOp

Next ==
    \/ Idle /\ UNCHANGED inv /\ \E n \in Names, p \in ProfileArgs, o \in MuxOutcomes :
                   CreateSession(n, p[1], p[2], o)
    \/ Idle /\ UNCHANGED inv /\ \E n \in Names, o \in MuxOutcomes : AttachSession(n, o)
    \/ Idle /\ UNCHANGED inv /\ \E n \in Names : KillSession(n)
    \/ Idle /\ UNCHANGED inv /\ \E n \in Names, t \in Notes : SetSessionNote(n, t)
    \/ Idle /\ UNCHANGED inv /\ \E a, b \in Names : RenameSession(a, b)
    \/ Idle /\ UNCHANGED inv /\ \E c \in BOOLEAN : ListSessions(c)
    \/ Idle /\ UNCHANGED inv /\ \E n \in Names : SessionDies(n)
    \/ Idle /\ UNCHANGED inv /\ \E n \in Names : SocketVanishes(n)
    \/ Idle /\ UNCHANGED inv /\ Tick
    \/ Exit

Spec == Init /\ [][Next]_vars

\* The maintenance commands (list, kill-all, kill-pattern, cleanup, info,
\* restore, log, metadata import) at work on sessions that are created with
\* one profile, attached, killed, started by other means, and that die.
MaintNext ==
    \/ Idle /\ UNCHANGED inv /\ \E n \in Names, o \in MuxOutcomes :
                   CreateSession(n, "Dark", "u1", o)
    \/ Idle /\ UNCHANGED inv /\ \E n \in Names, o \in MuxOutcomes : AttachSession(n, o)
    \/ Idle /\ UNCHANGED inv /\ \E n \in Names : KillSession(n)
    \/ Idle /\ UNCHANGED inv /\ \E c \in BOOLEAN : ListSessions(c)
    \/ Idle /\ UNCHANGED inv /\ KillAllSessions
    \/ Idle /\ UNCHANGED inv /\ \E pat \in Patterns : KillSessionsByPattern(pat)
    \/ Idle /\ UNCHANGED inv /\ \E d \in IdleDays : CleanupIdleSessions(d)
    \/ Idle /\ UNCHANGED inv /\ \E n \in Names : GetSessionInfo(n)
    \/ Idle /\ UNCHANGED inv /\ \E n \in Names : RestoreSession(n)
    \/ Idle /\ UNCHANGED inv /\ \E n \in Names, o \in MuxOutcomes : StartLogging(n, o)
    \/ Idle /\ UNCHANGED inv /\ \E doc \in ImportDocs, f \in BOOLEAN : ImportData(doc, f)
    \/ Idle /\ UNCHANGED inv /\ \E n \in Names : ExternalSession(n)
    \/ Idle /\ UNCHANGED inv /\ \E n \in Names : SessionDies(n)
    \/ Idle /\ UNCHANGED inv /\ \E n \in Names : SocketVanishes(n)
    \/ Idle /\ UNCHANGED inv /\ Tick
    \/ Exit

SpecMaint == Init /\ [][MaintNext]_vars

\* The calls on the metadata store, one after the other, with two sessions
\* alive that were started by other means; attach and list run on them.
MetaInit ==
    /\ handles = [n \in Names |-> "alive"]
    /\ mtime = [n \in Names |-> 0]
    /\ store = <<>>
    /\ now = 0
    /\ last = NoOp
    /\ inv = [p \in Procs |-> NoInv]

MetaNext ==
    \/ Idle /\ UNCHANGED inv /\ \E n \in Names, p \in ProfileArgs :
                   MetadataSet(n, p[1], p[2])
    \/ Idle /\ UNCHANGED inv /\ \E n \in Names, t \in Notes \cup {None} :
                   MetadataSetNote(n, t)
    \/ Idle /\ UNCHANGED inv /\ \E n \in Names : MetadataRemove(n)
    \/ Idle /\ UNCHANGED inv /\ \E S \in SUBSET Names : MetadataClean(S)
    \/ Idle /\ UNCHANGED inv /\ \E f \in BOOLEAN :
                   \E data \in ImportDocs \cup {NoSessionsDoc, ExportData(store, now)} :
                       ImportData(data, f)
    \/ Idle /\ UNCHANGED inv /\ \E n \in Names : AttachSession(n, "detached")
    \/ Idle /\ UNCHANGED inv /\ \E c \in BOOLEAN : ListSessions(c)
    \/ Idle /\ UNCHANGED inv /\ Tick
    \/ Exit

SpecMeta == MetaInit /\ [][MetaNext]_vars

\* Every operation of the registry on sessions it created itself, one
\* invocation at a time: no session is started by other means and nothing
\* is imported.
LifeNext ==
    \/ Idle /\ UNCHANGED inv /\ \E n \in Names, o \in MuxOutcomes :
                   CreateSession(n, "Dark", "u1", o)
    \/ Idle /\ UNCHANGED inv /\ \E n \in Names, o \in MuxOutcomes : AttachSession(n, o)
    \/ Idle /\ UNCHANGED inv /\ \E n \in Names : KillSession(n)
    \/ Idle /\ UNCHANGED inv /\ \E n \in Names, t \in Notes : SetSessionNote(n, t)
    \/ Idle /\ UNCHANGED inv /\ \E a, b \in Names : RenameSession(a, b)
    \/ Idle /\ UNCHANGED inv /\ \E c \in BOOLEAN : ListSessions(c)
    \/ Idle /\ UNCHANGED inv /\ KillAllSessions
    \/ Idle /\ UNCHANGED inv /\ \E pat \in Patterns : KillSessionsByPattern(pat)
    \/ Idle /\ UNCHANGED inv /\ \E d \in IdleDays : CleanupIdleSessions(d)
    \/ Idle /\ UNCHANGED inv /\ CleanCommand
    \/ Idle /\ UNCHANGED inv /\ MetadataCleanCommand
    \/ Idle /\ UNCHANGED inv /\ \E n \in Names : SessionDies(n)
    \/ Idle /\ UNCHANGED inv /\ \E n \in Names : SocketVanishes(n)
    \/ Idle /\ UNCHANGED inv /\ Tick
    \/ Exit

SpecLife == Init /\ [][LifeNext]_vars

\* Two invocations of `sk new` racing, each run once.
RaceNext ==
    \/ \E p \in Procs, n \in Names, a \in ProfileArgs : RaceStart(p, n, a[1], a[2])
    \/ \E p \in Procs : RaceCheck(p)
    \/ \E p \in Procs : RaceSetMeta(p)
    \/ \E p \in Procs : RaceMuxBind(p)
    \/ \E p \in Procs, o \in MuxOutcomes : RaceMuxEnd(p, o)
    \/ \E p \in Procs : RaceReturn(p)

SpecRace == Init /\ [][RaceNext]_vars

\* ------------------------------------------------- rename_session, stepwise
\* Two invocations of rename_session at once, over three names; name is the
\* old name and name2 the new one.
RenNames == Names \cup {"c"}

\* ShellKeeper.__init__ loads the metadata file.
RenStart(p, a, b) ==
    /\ inv[p].pc = "idle"
    /\ inv' = [inv EXCEPT ![p] = [NoInv EXCEPT !.pc = "ren_check", !.op = "rename",
                                               !.name = a, !.name2 = b,
                                               !.data = store]]
    /\ UNCHANGED <<handles, mtime, store, now, last>>

\* if not old_socket.exists(): return False
\* if new_socket.exists(): return False
RenCheck(p) ==
    /\ inv[p].pc = "ren_check"
    /\ inv' = [inv EXCEPT ![p].pc =
                   IF RenameOutcome(handles, inv[p].name, inv[p].name2) = "ok"
                   THEN "ren_move" ELSE "done",
                          ![p].ret = FALSE]
    /\ UNCHANGED <<handles, mtime, store, now, last>>

\* old_socket.rename(new_socket): rename(2) replaces a file that exists
\* under the new name, and raises FileNotFoundError when the old name is gone.
RenMove(p) ==
    /\ inv[p].pc = "ren_move"
    /\ IF ~SocketExists(handles, inv[p].name)
       THEN /\ inv' = [inv EXCEPT ![p].pc = "crashed",
                                  ![p].raised = "FileNotFoundError"]
            /\ UNCHANGED <<handles, mtime>>
       ELSE /\ inv' = [inv EXCEPT ![p].pc = "ren_meta"]
            /\ handles' = RenameHandle(handles, inv[p].name, inv[p].name2)
            /\ mtime' = RenameMtime(mtime, inv[p].name, inv[p].name2)
    /\ UNCHANGED <<store, now, last>>

\* old_meta = self.metadata.get(old_name); if old_meta: remove, set;
\* return True
RenMeta(p) ==
    /\ inv[p].pc = "ren_meta"
    /\ LET d == RenameMeta(inv[p].data, inv[p].name, inv[p].name2, now)
       IN /\ inv' = [inv EXCEPT ![p].pc = "done", ![p].ret = TRUE, ![p].data = d]
          /\ store' = IF inv[p].name \in DOMAIN inv[p].data THEN d ELSE store
    /\ UNCHANGED <<handles, mtime, now, last>>

\* Sessions a and c alive, created by create_session at time 0; b is free.
RenInit ==
    /\ handles = [n \in RenNames |-> IF n = "b" THEN "absent" ELSE "alive"]
    /\ mtime = [n \in RenNames |-> 0]
    /\ store = [n \in RenNames \ {"b"} |->
                   [EmptyRec EXCEPT !.created = 0, !.last_attached = 0]]
    /\ now = 0
    /\ last = NoOp
    /\ inv = [p \in Procs |-> NoInv]

RenNext ==
    \/ \E p \in Procs, a, b \in RenNames : RenStart(p, a, b)
    \/ \E p \in Procs : RenCheck(p)
    \/ \E p \in Procs : RenMove(p)
    \/ \E p \in Procs : RenMeta(p)

SpecRen == RenInit /\ [][RenNext]_vars

\* =================================================================== claims
\* Number of entries of a returned list that carry the name n.
CountName(l, n) == Cardinality({i \in DOMAIN l : l[i].name = n})

\* Everything but n is as before the step.
OthersUnchanged(n) ==
    \A m \in Names \ {n} :
        /\ handles'[m] = handles[m]
        /\ mtime'[m] = mtime[m]
        /\ (m \in DOMAIN store') = (m \in DOMAIN store)
        /\ m \in DOMAIN store => store'[m] = store[m]

\* The socket directory and the metadata store are as before the step.
NothingChanged == handles' = handles /\ mtime' = mtime /\ store' = store

\* C1 as stated: once create_session(n) has returned success, list_sessions()
\* contains exactly one entry named n, and n's handle passes the probe.
C1_CreatedIsListed ==
    (last.op = "create" /\ last.ret) =>
        /\ IsSessionAlive(handles, last.name)
        /\ \A scan \in ScanOrders(handles) :
               CountName(ListResult(handles, mtime, store, scan), last.name) = 1

\* C1 amended: once create_session(n) has returned success with its session
\* still running (the multiplexer call ended by a detach), a list_sessions()
\* that runs next contains exactly one entry named n, and n's handle passes
\* the probe.
C1_DetachedIsListed ==
    (last.op = "create" /\ last.ret /\ last.ended = "detached") =>
        /\ IsSessionAlive(handles, last.name)
        /\ \A scan \in ScanOrders(handles) :
               CountName(ListResult(handles, mtime, store, scan), last.name) = 1

\* Witness of C1: a create returned success after a detach while another session is listed.
C1_Witness ==
    /\ last.op = "create" /\ last.ret /\ last.ended = "detached"
    /\ \E m \in Names \ {last.name} : IsSessionAlive(handles, m)

\* C2: create_session(n) while a handle for n is present (alive or dead)
\* returns false, invokes no multiplexer, and leaves the socket directory and
\* the whole metadata store (so n's created timestamp) unchanged.
C2_CreateConflict ==
    [][(last'.op = "create" /\ SocketExists(handles, last'.name)) =>
           /\ last'.ret = FALSE
           /\ last'.mux = None
           /\ NothingChanged]_vars

\* Witness of C2: a create was declined on a dead handle whose record is older than now.
C2_Witness ==
    /\ last.op = "create" /\ ~last.ret /\ last.was = "dead"
    /\ last.name \in DOMAIN store
    /\ store[last.name].created < now

\* C3 as stated: after the handle of a session n stops being alive (its socket
\* was deleted, or its probe fails), list_sessions(clean_dead=True) leaves
\* neither a handle nor a metadata record for n.
C3_GoneIsReaped ==
    [][last'.op = "list_clean" =>
           \A n \in Names :
               (n \in DOMAIN store /\ ~IsSessionAlive(handles, n)) =>
                   /\ ~SocketExists(handles', n)
                   /\ n \notin DOMAIN store']_vars

\* C3 amended: a handle that is present and fails the probe is removed by
\* list_sessions(clean_dead=True) together with its metadata record, and
\* attach_session(n) then finds no session; when the socket file itself is
\* gone, attach_session(n) finds no session either, but list_sessions leaves
\* n's metadata record as it is.
C3_DeadIsReaped ==
    [][last'.op = "list_clean" =>
           \A n \in Names :
               /\ (SocketExists(handles, n) /\ ~IsSessionAlive(handles, n)) =>
                      /\ ~SocketExists(handles', n)
                      /\ n \notin DOMAIN store'
                      /\ AttachOutcome(handles', n) = "not_found"
               /\ ~SocketExists(handles, n) =>
                      /\ AttachOutcome(handles', n) = "not_found"
                      /\ (n \in DOMAIN store') = (n \in DOMAIN store)
                      /\ n \in DOMAIN store => store'[n] = store[n]]_vars

\* Witness of C3: a listing has reaped a dead session and left an alive one in place.
C3_Witness ==
    /\ last.op = "list_clean"
    /\ \E n \in last.dead : ~SocketExists(handles, n) /\ n \notin DOMAIN store
    /\ \E m \in Names : IsSessionAlive(handles, m) /\ m \in DOMAIN store

\* C4: attach_session(n) on a handle that exists but fails the probe deletes
\* the handle and n's record, returns failure and invokes no multiplexer; no
\* other session changes.
C4_AttachDead ==
    [][(last'.op = "attach" /\ SocketExists(handles, last'.name)
            /\ ~IsSessionAlive(handles, last'.name)) =>
           /\ last'.ret = FALSE
           /\ last'.mux = None
           /\ ~SocketExists(handles', last'.name)
           /\ last'.name \notin DOMAIN store'
           /\ OthersUnchanged(last'.name)]_vars

\* Witness of C4: an attach has failed on a dead handle; neither the handle nor a record is left.
C4_Witness ==
    /\ last.op = "attach" /\ ~last.ret /\ last.was = "dead"
    /\ ~SocketExists(handles, last.name)
    /\ last.name \notin DOMAIN store

\* C5: kill_session(n) with n's handle present succeeds whether the handle is
\* alive or dead; afterwards neither the handle nor the record of n exists,
\* and every other session's handle and record are unchanged.
C5_KillRemoves ==
    [][(last'.op = "kill" /\ SocketExists(handles, last'.name)) =>
           /\ last'.ret = TRUE
           /\ ~SocketExists(handles', last'.name)
           /\ last'.name \notin DOMAIN store'
           /\ OthersUnchanged(last'.name)]_vars

\* Witness of C5: a dead session was killed while another session with a record exists.
C5_Witness ==
    /\ last.op = "kill" /\ last.ret /\ last.was = "dead"
    /\ \E m \in Names \ {last.name} : SocketExists(handles, m) /\ m \in DOMAIN store

\* C6 as stated: after a successful rename_session(a, b), a # b, no handle
\* and no record remain under a, a handle exists under b, and when a had a
\* record, b's record has exactly a's profile_name and profile_uuid, whatever
\* the store held under b before.
C6_RenameMovesProfile ==
    [][(last'.op = "rename" /\ last'.ret /\ last'.name # last'.name2) =>
           /\ ~SocketExists(handles', last'.name)
           /\ last'.name \notin DOMAIN store'
           /\ SocketExists(handles', last'.name2)
           /\ last'.name \in DOMAIN store =>
                  /\ last'.name2 \in DOMAIN store'
                  /\ store'[last'.name2].profile_name = store[last'.name].profile_name
                  /\ store'[last'.name2].profile_uuid = store[last'.name].profile_uuid]_vars

\* C7 as stated: the note stored on a's record before rename_session(a, b) is
\* the note of b's record after it.
C7_RenameKeepsNote ==
    [][(last'.op = "rename" /\ last'.ret /\ last'.name \in DOMAIN store) =>
           /\ last'.name2 \in DOMAIN store'
           /\ store'[last'.name2].note = store[last'.name].note]_vars

\* C8: rename_session(a, b) when a handle for b exists returns false and
\* leaves the handles and the records of a and b (and all others) unchanged.
C8_RenameConflict ==
    [][(last'.op = "rename" /\ SocketExists(handles, last'.name2)) =>
           /\ last'.ret = FALSE
           /\ NothingChanged]_vars

\* Witness of C8: a rename of a present session onto another present session was declined;
\* both have records.
C8_Witness ==
    /\ last.op = "rename" /\ ~last.ret /\ last.was # "absent"
    /\ last.name # last.name2
    /\ SocketExists(handles, last.name) /\ SocketExists(handles, last.name2)
    /\ {last.name, last.name2} \subseteq DOMAIN store

\* C9: attach_session, kill_session, rename_session (as the old name) and
\* set_session_note on a name that has no socket handle return failure and
\* change neither the socket directory nor the metadata store, also when an
\* orphan record of that name exists.
C9_NotFound ==
    [][(last'.op \in {"attach", "kill", "rename", "note"}
            /\ ~SocketExists(handles, last'.name)) =>
           /\ last'.ret = FALSE
           /\ NothingChanged]_vars

\* Witness of C9: a note was refused for a name that has an orphan record and no handle.
C9_Witness ==
    /\ last.op = "note" /\ ~last.ret /\ last.was = "absent"
    /\ last.name \in DOMAIN store

\* C10 as stated: when two invocations run create_session(n) concurrently,
\* at most one of them holds a session under n, and the one that loses the
\* race for the socket (the multiplexer could not bind it because the other's
\* handle was there) returns false.
C10_LoserDeclined ==
    /\ \A p, q \in Procs :
           (p # q /\ inv[p].name = inv[q].name /\ inv[p].pc = "foreground") =>
               inv[q].pc # "foreground"
    /\ \A p \in Procs :
           (inv[p].pc = "done" /\ inv[p].mux = "failed") => inv[p].ret = FALSE

\* The stores d and e hold the same under the name n.
SameAt(d, e, n) ==
    /\ (n \in DOMAIN d) = (n \in DOMAIN e)
    /\ n \in DOMAIN d => d[n] = e[n]

\* C11: when two invocations have both loaded the same store and each then
\* mutates a different session's record and saves, the file equals the
\* in-memory copy of the one that saved last, and under the other's session
\* it holds what was loaded: the other's update is lost.
C11_LastWriterWins ==
    \A p, q \in Procs :
        (/\ p # q
         /\ inv[p].pc = "done" /\ inv[q].pc = "done"
         /\ inv[p].saved /\ inv[q].saved
         /\ inv[p].name # inv[q].name
         /\ inv[p].loaded = inv[q].loaded
         /\ last.op = "save" /\ last.name = inv[q].name) =>
            /\ store = inv[q].data
            /\ SameAt(store, inv[p].loaded, inv[p].name)

\* Witness of C11: both processes saved from the same loaded store, and the
\* file no longer holds what the first of them wrote.
C11_Witness ==
    \E p, q \in Procs :
        /\ p # q
        /\ inv[p].pc = "done" /\ inv[q].pc = "done"
        /\ inv[p].saved /\ inv[q].saved
        /\ inv[p].name # inv[q].name
        /\ inv[p].loaded = inv[q].loaded
        /\ last.op = "save" /\ last.name = inv[q].name
        /\ ~SameAt(store, inv[p].data, inv[p].name)

\* Was n targeted by the bulk invocation i, going by the metadata it loaded?
WasTargeted(i, n) ==
    /\ n \in SeqRange(i.snap)
    /\ Targeted(i.op, BulkArg(i), i.loaded, n, now)

\* C12 as stated: in a bulk operation a failure to kill one item of the
\* snapshot does not stop the loop: when the invocation has ended, every
\* targeted item of the snapshot has been killed (its socket is gone).
C12_LoopSurvivesFailure ==
    inv[BulkProc].pc \in {"done", "crashed"} =>
        \A n \in Names : WasTargeted(inv[BulkProc], n) => ~SocketExists(handles, n)

\* C13 as stated: the list a bulk operation returns holds only names for
\* which kill_session returned true.
C13_ReturnedWereKilled ==
    inv[BulkProc].pc = "done" =>
        SeqRange(inv[BulkProc].killed) \cap inv[BulkProc].failed = {}

\* C14: cleanup_idle_sessions(d) leaves alone every session whose
\* last_attached is at or after the cutoff now - d (handle and record as
\* before, name not in the returned list); with d = 0 and every last_attached
\* equal to now it removes nothing.
C14_CleanupKeepsRecent ==
    [][last'.op = "cleanup" =>
           /\ \A n \in DOMAIN store :
                  (store[n].last_attached # NoTime
                      /\ store[n].last_attached >= now - last'.days) =>
                         /\ handles'[n] = handles[n]
                         /\ n \in DOMAIN store' /\ store'[n] = store[n]
                         /\ n \notin SeqRange(last'.list)
           /\ (last'.days = 0 /\ \A n \in DOMAIN store : store[n].last_attached = now) =>
                  last'.list = <<>> /\ NothingChanged]_vars

\* Witness of C14: a cleanup has removed an idle session and kept a live one
\* that was last attached exactly at the cutoff.
C14_Witness ==
    /\ last.op = "cleanup" /\ last.list # <<>>
    /\ \E n \in DOMAIN store :
           /\ IsSessionAlive(handles, n)
           /\ store[n].last_attached = now - last.days

\* C15: cleanup_idle_sessions, whatever its argument, leaves alone every
\* session that has no metadata record or whose record has no last_attached.
C15_CleanupSparesUnattached ==
    [][last'.op = "cleanup" =>
           \A n \in Names :
               (SocketExists(handles, n)
                   /\ (n \notin DOMAIN store \/ store[n].last_attached = NoTime)) =>
                      /\ handles'[n] = handles[n]
                      /\ (n \in DOMAIN store') = (n \in DOMAIN store)
                      /\ n \in DOMAIN store => store'[n] = store[n]
                      /\ n \notin SeqRange(last'.list)]_vars

\* Witness of C15: a cleanup at a time when any last_attached would have been
\* idle has passed over a live session without a record and a live session
\* whose record has no last_attached.
C15_Witness ==
    /\ last.op = "cleanup" /\ now - last.days > 0
    /\ \E n, m \in Names :
           /\ IsSessionAlive(handles, n) /\ n \notin DOMAIN store
           /\ IsSessionAlive(handles, m) /\ m \in DOMAIN store
           /\ store[m].last_attached = NoTime

\* C16 as stated: after cleanup_idle_sessions(d) no socket handle remains
\* whose metadata last_attached predates the cutoff now - d.
C16_NoIdleHandleLeft ==
    last.op = "cleanup" =>
        \A n \in DOMAIN store :
            (SocketExists(handles, n) /\ store[n].last_attached # NoTime) =>
                ~(store[n].last_attached < now - last.days)

\* C16 amended: after cleanup_idle_sessions(d) no handle that passes the
\* liveness probe remains whose metadata last_attached predates the cutoff
\* now - d, and every name it returns has neither handle nor record; a handle
\* that fails the probe is not enumerated and stays, whatever its record says.
C16_NoIdleSessionLeft ==
    last.op = "cleanup" =>
        /\ \A n \in DOMAIN store :
               (IsSessionAlive(handles, n) /\ store[n].last_attached # NoTime) =>
                   ~(store[n].last_attached < now - last.days)
        /\ \A n \in SeqRange(last.list) :
               ~SocketExists(handles, n) /\ n \notin DOMAIN store

\* Witness of C16: a cleanup has killed an idle session and left a dead
\* handle whose record is older than the cutoff.
C16_Witness ==
    /\ last.op = "cleanup" /\ last.list # <<>>
    /\ \E n \in DOMAIN store :
           /\ handles[n] = "dead"
           /\ store[n].last_attached # NoTime
           /\ store[n].last_attached < now - last.days

\* The handle of n is present and fails the probe.
IsDead(h, n) == SocketExists(h, n) /\ ~IsSessionAlive(h, n)

\* C17 as stated: attach_session, list_sessions, get_session_info,
\* restore_session and start_logging, on finding a handle dead, delete the
\* handle and remove its metadata record.
C17_DeadIsReclaimed ==
    [][/\ (last'.op \in {"attach", "info", "restore", "log"}
              /\ IsDead(handles, last'.name)) =>
                 /\ ~SocketExists(handles', last'.name)
                 /\ last'.name \notin DOMAIN store'
       /\ last'.op \in {"list", "list_clean"} =>
              \A n \in Names : IsDead(handles, n) =>
                  ~SocketExists(handles', n) /\ n \notin DOMAIN store']_vars

\* C17 amended: attach_session and list_sessions(clean_dead=True), on finding
\* a handle dead, delete the handle and remove its metadata record;
\* get_session_info, restore_session, start_logging and
\* list_sessions(clean_dead=False) leave the dead handle and its record as
\* they are (restore_session and start_logging return failure,
\* get_session_info reports the session as not alive).
C17_ReclaimedByAttachAndClean ==
    [][/\ (last'.op = "attach" /\ IsDead(handles, last'.name)) =>
              /\ ~SocketExists(handles', last'.name)
              /\ last'.name \notin DOMAIN store'
       /\ last'.op = "list_clean" =>
              \A n \in Names : IsDead(handles, n) =>
                  ~SocketExists(handles', n) /\ n \notin DOMAIN store'
       /\ (last'.op \in {"info", "restore", "log"} /\ IsDead(handles, last'.name)) =>
              /\ NothingChanged
              /\ last'.ret = (last'.op = "info")
              /\ last'.mux = None
       /\ last'.op = "list" => NothingChanged]_vars

\* Witness of C17: get_session_info, restore_session or start_logging has
\* found a handle dead; the handle and its record are still there.
C17_Witness ==
    /\ last.op \in {"info", "restore", "log"}
    /\ last.was = "dead"
    /\ IsDead(handles, last.name)
    /\ last.name \in DOMAIN store

\* C18 as stated: after list_sessions(clean_dead=True) no dead handle remains
\* and every name that has a metadata record has an alive socket handle.
C18_StoreMatchesHandles ==
    last.op = "list_clean" =>
        /\ \A n \in Names : ~IsDead(handles, n)
        /\ \A n \in DOMAIN store : IsSessionAlive(handles, n)

\* C18 amended: after list_sessions(clean_dead=True) no dead handle remains,
\* every name the scan found dead has neither handle nor record, and every
\* name that has both a record and a handle has an alive handle; a record
\* whose socket file was already gone stays in the store.
C18_DeadReconciled ==
    last.op = "list_clean" =>
        /\ \A n \in Names : ~IsDead(handles, n)
        /\ \A n \in last.dead : ~SocketExists(handles, n) /\ n \notin DOMAIN store
        /\ \A n \in DOMAIN store : SocketExists(handles, n) => IsSessionAlive(handles, n)

\* Witness of C18: a cleaning list has reaped a dead session while the record
\* of a session whose socket file is gone is still in the store.
C18_Witness ==
    /\ last.op = "list_clean" /\ last.dead # {}
    /\ \E n \in DOMAIN store : ~SocketExists(handles, n)

\* The order of names that breaks ties.
SortedNames == <<"a", "b">>

NameIndex(n) == CHOOSE i \in DOMAIN SortedNames : SortedNames[i] = n

\* C19 as stated: list_sessions returns its entries in descending order of
\* timestamp, entries with equal timestamps ordered by name, so that the
\* result is the same for every directory scan order.
C19_OrderedByTimeThenName ==
    last.op \in {"list", "list_clean"} =>
        /\ \A i, j \in DOMAIN last.entries : i < j =>
               \/ last.entries[i].last_active > last.entries[j].last_active
               \/ /\ last.entries[i].last_active = last.entries[j].last_active
                  /\ NameIndex(last.entries[i].name) < NameIndex(last.entries[j].name)
        /\ \A scan \in ScanOrders(handles) :
               ListResult(handles, mtime, store, scan) = last.entries

\* C20: for either value of clean_dead the names list_sessions returns are
\* exactly the handles that pass the probe, each once; an alive handle without
\* a record is listed with empty metadata fields and gets no record; a name
\* with a record and no handle is not listed.
C20_ListsExactlyAlive ==
    [][last'.op \in {"list", "list_clean"} =>
           /\ SeqRange(last'.list) = {n \in Names : IsSessionAlive(handles, n)}
           /\ \A n \in Names : CountName(last'.entries, n) <= 1
           /\ Len(last'.list) = Len(last'.entries)
           /\ \A i \in DOMAIN last'.entries :
                  /\ last'.list[i] = last'.entries[i].name
                  /\ last'.list[i] \notin DOMAIN store =>
                         /\ last'.entries[i].profile_name = None
                         /\ last'.entries[i].profile_uuid = None
                         /\ last'.entries[i].created = NoTime
           /\ DOMAIN store' \subseteq DOMAIN store
           /\ \A n \in DOMAIN store :
                  ~SocketExists(handles, n) => n \notin SeqRange(last'.list)]_vars

\* Witness of C20: a list has returned an alive session that has no record
\* while a record without a handle was in the store; no record was created.
C20_Witness ==
    /\ last.op \in {"list", "list_clean"}
    /\ \E n \in SeqRange(last.list) : n \notin DOMAIN store
    /\ \E m \in DOMAIN store : ~SocketExists(handles, m) /\ m \notin SeqRange(last.list)

\* C21: importing a store's own export into that populated store of N
\* sessions reports imported = 0, skipped = N and leaves the store unchanged
\* without force; with force it reports imported = N, skipped = 0 and every
\* record equals the exported one.
C21_ImportOwnExport ==
    [][(last'.op = "import" /\ DOMAIN store # {}
            /\ last'.doc = ExportData(store, now)) =>
           IF ~last'.force
           THEN /\ last'.imported = 0
                /\ last'.skipped = Cardinality(DOMAIN store)
                /\ store' = store
           ELSE /\ last'.imported = Cardinality(DOMAIN store)
                /\ last'.skipped = 0
                /\ DOMAIN store' = DOMAIN store
                /\ \A n \in DOMAIN store : store'[n] = last'.doc.sessions[n]]_vars

\* Witness of C21: a forced import of the own export of a store of two
\* sessions has overwritten both.
C21_Witness ==
    /\ last.op = "import" /\ last.force
    /\ "exported" \in DOMAIN last.doc
    /\ last.doc.sessions = store
    /\ last.imported = Cardinality(Names) /\ last.skipped = 0

\* C22: import_data(data, force=false) modifies no record the store already
\* has, adds exactly the names of data.sessions that were absent, and returns
\* counts whose sum is the number of sessions in data; a document without a
\* "sessions" key is rejected with an error and the store is unchanged.
C22_ImportSkipsExisting ==
    [][last'.op = "import" =>
           IF "sessions" \notin DOMAIN last'.doc
           THEN last'.raised = "ValueError" /\ store' = store
           ELSE ~last'.force =>
                  LET doc == last'.doc.sessions
                  IN /\ last'.raised = None
                     /\ \A n \in DOMAIN store :
                            n \in DOMAIN store' /\ store'[n] = store[n]
                     /\ DOMAIN store' = (DOMAIN store) \cup (DOMAIN doc)
                     /\ \A n \in (DOMAIN doc) \ (DOMAIN store) : store'[n] = doc[n]
                     /\ last'.imported = Cardinality((DOMAIN doc) \ (DOMAIN store))
                     /\ last'.imported + last'.skipped = Cardinality(DOMAIN doc)]_vars

\* Witness of C22: an import without force has added one name and skipped
\* one that the store had, with a record other than the document's.
C22_Witness ==
    /\ last.op = "import" /\ ~last.force
    /\ last.imported = 1 /\ last.skipped = 1
    /\ \E n \in DOMAIN store : store[n] # last.doc.sessions[n]

\* C23: SessionMetadata.set(n, pn, pu) sets last_attached to now, sets
\* created only when n had no record, overwrites a profile field only when a
\* value other than None is given for it, and leaves the other profile field,
\* the note and every other record untouched.
C23_SetIsPartialUpdate ==
    [][last'.op = "set" =>
           LET n == last'.name
               old == MetaGet(store, n)
           IN /\ n \in DOMAIN store'
              /\ store'[n].last_attached = now
              /\ store'[n].created = IF n \in DOMAIN store THEN old.created ELSE now
              /\ store'[n].profile_name =
                     IF last'.pn # None THEN last'.pn ELSE old.profile_name
              /\ store'[n].profile_uuid =
                     IF last'.pu # None THEN last'.pu ELSE old.profile_uuid
              /\ store'[n].note = old.note
              /\ OthersUnchanged(n)]_vars

\* Witness of C23: a set without a profile uuid on a record made earlier has
\* kept the uuid, the note and the creation time.
C23_Witness ==
    /\ last.op = "set" /\ last.pu = None
    /\ store[last.name].profile_uuid = "u1"
    /\ store[last.name].note = "testing"
    /\ store[last.name].created < store[last.name].last_attached

\* C24 as stated: as long as n's record is not removed, no operation (set,
\* set_note, attach, import with or without force, clean, enumerate) changes
\* its created field.
C24_CreatedNeverChanges ==
    [][\A n \in (DOMAIN store) \cap (DOMAIN store') :
           store'[n].created = store[n].created]_vars

\* C24 amended: as long as n's record is not removed, its created field is
\* changed by no operation but an import with force whose document has n,
\* which replaces the whole record, created included, by the document's.
C24_CreatedKeptButForcedImport ==
    [][\A n \in (DOMAIN store) \cap (DOMAIN store') :
           IF last'.op = "import" /\ last'.force /\ last'.raised = None
                 /\ n \in DOMAIN last'.doc.sessions
           THEN store'[n] = last'.doc.sessions[n]
           ELSE store'[n].created = store[n].created]_vars

\* Witness of C24: an attach has refreshed last_attached of a record made
\* earlier, whose created is still the earlier time.
C24_Witness ==
    /\ last.op = "attach" /\ last.ret
    /\ store[last.name].last_attached = now
    /\ store[last.name].created # NoTime
    /\ store[last.name].created < now

\* C25: SessionMetadata.set_note(n, note) returns false and leaves the store
\* unchanged when n has no record; otherwise it returns true and changes only
\* the note of n's record.
C25_SetNoteOnlyNote ==
    [][last'.op = "set_note" =>
           LET n == last'.name
           IN IF n \notin DOMAIN store
              THEN ~last'.ret /\ store' = store
              ELSE /\ last'.ret
                   /\ DOMAIN store' = DOMAIN store
                   /\ store'[n] = [store[n] EXCEPT !.note = last'.note]
                   /\ OthersUnchanged(n)]_vars

\* Witness of C25: set_note has cleared the note of a record that has a
\* profile.
C25_Witness ==
    /\ last.op = "set_note" /\ last.ret /\ last.note = None
    /\ store[last.name].note = None
    /\ store[last.name].profile_name = "Dark"

\* C26: SessionMetadata.clean(active_names) leaves exactly the records whose
\* name is in active_names, each unchanged, and returns exactly the names that
\* had a record and are not in active_names.
C26_CleanKeepsActive ==
    [][last'.op = "clean" =>
           /\ DOMAIN store' = {n \in DOMAIN store : n \in last'.active}
           /\ \A n \in DOMAIN store' : store'[n] = store[n]
           /\ last'.removed = {n \in DOMAIN store : n \notin last'.active}]_vars

\* Witness of C26: a clean has removed one record and kept another.
C26_Witness ==
    /\ last.op = "clean"
    /\ last.removed # {}
    /\ DOMAIN store # {}

\* C27 as stated: a command whose operation fails because the named session
\* is missing (attach, kill <name>, rename, info, note) ends the process with
\* exit code 1, and a command that succeeds ends it with exit code 0.
C27_FailureExitsOne ==
    last.op \in {"attach", "kill", "rename", "info", "note"} =>
        MainExit(last.op, last.ret) = IF last.ret THEN 0 ELSE 1

\* C28 as stated: when the metadata file is unreadable or malformed, loading
\* yields an empty mapping without raising, and the first later mutation
\* rewrites the file so that it holds only that mutation's result.
C28_CorruptFileIsReset ==
    LET i == inv[LoadProc]
    IN (i.pc # "idle" /\ IsCorrupt(i.found)) =>
           /\ i.raised = None
           /\ i.loaded = <<>>
           /\ (i.pc = "done" /\ i.op = "set") =>
                  store = MetaSet(<<>>, i.name, i.pn, i.pu, now)

\* C29: in a run of create_session(n) that passes the existence check, n's
\* record is in the persisted store, with last_attached and the given profile
\* written, at every state where the multiplexer has been invoked for n; an
\* invocation that is stopped after the write, before or during the
\* multiplexer call, leaves the record in the store.
C29_RecordBeforeMux ==
    LET i == inv[StepProc]
    IN (i.op = None /\ (i.mux # None \/ i.pc \in {"mux", "stopped"})) =>
           /\ i.name \in DOMAIN store
           /\ store[i.name].last_attached = now
           /\ i.pn # None => store[i.name].profile_name = i.pn

\* Witness of C29: a create was stopped before the multiplexer had bound the
\* socket; the record it wrote is in the store and no handle exists.
C29_Witness ==
    LET i == inv[StepProc]
    IN /\ i.op = None /\ i.pc = "stopped" /\ i.mux = None
       /\ ~SocketExists(handles, i.name)
       /\ i.name \in DOMAIN store
       /\ store[i.name].created = now

\* The steps of attach_session(n) once n's handle has passed the probe.
AfterProbe == {"refresh", "attach_mux", "attached"}

\* C30 as stated: attach_session(n) on an alive handle has written the
\* refreshed last_attached to the store when the multiplexer is invoked, and
\* changes nothing else: n's created, profile_name, profile_uuid and note,
\* and all other records and handles, are as before.
C30_AttachOnlyRefreshes ==
    [][LET i == inv[StepProc]
           n == i.name
       IN (i.op = "attach" /\ i.pc \in AfterProbe) =>
              /\ inv'[StepProc].pc = "attached" =>
                     n \in DOMAIN store /\ store[n].last_attached = now
              /\ MetaGet(store', n).created = MetaGet(store, n).created
              /\ MetaGet(store', n).profile_name = MetaGet(store, n).profile_name
              /\ MetaGet(store', n).profile_uuid = MetaGet(store, n).profile_uuid
              /\ MetaGet(store', n).note = MetaGet(store, n).note
              /\ OthersUnchanged(n)]_vars

\* C30 amended: attach_session(n) on an alive handle has written the
\* refreshed last_attached to the store when the multiplexer is invoked; when
\* n has a record, it changes nothing else of it (created, profile_name,
\* profile_uuid and note are as before); when n has none, it creates one with
\* created = last_attached = now and no profile and no note.  All other
\* records and handles are as before.
C30_AttachRefreshesOrCreates ==
    [][LET i == inv[StepProc]
           n == i.name
       IN (i.op = "attach" /\ i.pc \in AfterProbe) =>
              /\ inv'[StepProc].pc = "attached" =>
                     n \in DOMAIN store /\ store[n].last_attached = now
              /\ (n \in DOMAIN store /\ n \in DOMAIN store') =>
                     store'[n] = [store[n] EXCEPT !.last_attached = store'[n].last_attached]
              /\ (n \notin DOMAIN store /\ n \in DOMAIN store') =>
                     store'[n] = [EmptyRec EXCEPT !.created = now, !.last_attached = now]
              /\ n \in DOMAIN store => n \in DOMAIN store'
              /\ OthersUnchanged(n)]_vars

\* Witness of C30: the multiplexer has been invoked by an attach to a session
\* that had no record; the record it created is in the store.
C30_Witness ==
    LET i == inv[StepProc]
    IN /\ i.op = "attach" /\ i.pc = "attached"
       /\ i.name \notin DOMAIN i.loaded
       /\ i.name \in DOMAIN store
       /\ store[i.name].created = now /\ store[i.name].last_attached = now

\* C31: list_sessions(clean_dead=False) changes neither the handles nor the
\* metadata store; list_sessions(clean_dead=True) removes exactly the handles
\* that failed the probe and the records of those names, and leaves every
\* alive session's handle and record, and every record without a handle,
\* as they were.
C31_ListFrame ==
    [][/\ last'.op = "list" => NothingChanged
       /\ last'.op = "list_clean" =>
            \A n \in Names :
                IF handles[n] = "dead"
                THEN handles'[n] = "absent" /\ n \notin DOMAIN store'
                ELSE /\ handles'[n] = handles[n]
                     /\ mtime'[n] = mtime[n]
                     /\ SameAt(store', store, n)]_vars

C31_Witness ==
    /\ last.op = "list_clean"
    /\ last.dead # {}
    /\ \E n \in Names : handles[n] = "alive" /\ n \in DOMAIN store

\* C32: the registry never creates a socket handle itself: a name enters the
\* handle set only through the multiplexer call of create_session for that
\* name, or as the target of a successful rename_session whose source name
\* leaves the set in the same step; no other operation adds a handle.
C32_HandlesOnlyFromCreateOrRename ==
    [][\A n \in Names :
          (handles[n] = "absent" /\ handles'[n] # "absent") =>
              \/ /\ last'.op = "create"
                 /\ last'.name = n
                 /\ last'.mux = "create"
              \/ /\ last'.op = "rename"
                 /\ last'.ret
                 /\ last'.name2 = n
                 /\ handles[last'.name] # "absent"
                 /\ handles'[last'.name] = "absent"]_vars

C32_Witness ==
    /\ last.op = "rename"
    /\ last.ret
    /\ handles[last.name2] # "absent"
    /\ handles[last.name] = "absent"

\* C39: when the `clean` command has completed with nothing else running, no
\* dead handle remains and every name with a metadata record has an alive
\* handle.
C39_CleanLeavesOnlyAlive ==
    last.op = "clean_cmd" =>
        /\ \A n \in Names : handles[n] # "dead"
        /\ \A n \in DOMAIN store : handles[n] = "alive"

C39_Witness ==
    /\ last.op = "clean_cmd"
    /\ last.dead # {}
    /\ last.removed # {}

\* C37: with one invocation at a time, an undamaged store and no import,
\* every alive handle that was created through create_session has a
\* metadata record, after any sequence of create, attach, kill, rename,
\* set-note, enumerate, cleanup-idle and metadata clean operations. (Every
\* handle of SpecLife comes from create_session.)
C37_AliveHasRecord ==
    \A n \in Names : handles[n] = "alive" => n \in DOMAIN store

C37_Witness ==
    /\ last.op = "rename"
    /\ last.ret
    /\ handles[last.name2] = "alive"
    /\ last.name2 \in DOMAIN store
    /\ last.name \notin DOMAIN store

\* C38 as stated: the record of a session newly created by a successful
\* create_session(n) is fresh: its created is the time of this create and it
\* has no note, whatever earlier session of the name existed and however it
\* ended.
C38_CreateStartsFresh ==
    [][(last'.op = "create" /\ last'.ret) =>
          /\ last'.name \in DOMAIN store'
          /\ store'[last'.name].created = now
          /\ store'[last'.name].note = None]_vars

\* C33 as stated: kill_sessions_by_pattern(p) kills only sessions of its
\* enumeration snapshot whose name matches p: at every step of the
\* invocation a session whose name does not match, or that is not in the
\* snapshot (created after it was taken), keeps its handle and its record.
C33_PatternKillFrame ==
    [][(inv[BulkProc].op = "kill_pattern" /\ inv'[BulkProc] # inv[BulkProc]) =>
          \A n \in Names :
              (n \notin SeqRange(inv[BulkProc].snap)
                  \/ ~(inv[BulkProc].name \in {"*", n})) =>
                    /\ handles'[n] = handles[n]
                    /\ SameAt(store', store, n)]_vars

\* C35 as stated: rename_session never overwrites an existing handle, also
\* under concurrency: when two invocations have renamed different sessions
\* to the same name, absent when they started, at most one of them succeeded
\* and the session of the other still has a handle under its original name.
C35_RenameNeverOverwrites ==
    \A p, q \in Procs :
        (/\ p # q
         /\ inv[p].pc = "done" /\ inv[q].pc = "done"
         /\ inv[p].name2 = "b" /\ inv[q].name2 = "b"
         /\ inv[p].name # inv[q].name
         /\ inv[p].name # "b" /\ inv[q].name # "b") =>
            /\ ~(inv[p].ret /\ inv[q].ret)
            /\ ~inv[p].ret => SocketExists(handles, inv[p].name)

\* C36 as stated: while a create_session(n) runs alongside,
\* list_sessions(clean_dead=True) never removes the metadata record of a
\* session whose handle is alive at the moment the record is removed.
C36_ReapSparesAliveRecord ==
    [][(inv[ReapProc].op = "list_clean" /\ inv'[ReapProc] # inv[ReapProc]) =>
          \A n \in Names :
              (n \in DOMAIN store /\ n \notin DOMAIN store') =>
                  handles[n] # "alive"]_vars

\* The invocation is under way, and has ended.
TermRunning == inv[StepProc].pc \notin {"idle", "done", "crashed"}
TermEnded == inv[StepProc].pc \in {"done", "crashed"}

\* The invocation is blocked: under way, with no step it can take by itself.
TermBlocked == TermRunning /\ ~ENABLED TermSteps

ScanOps == {"list_clean", "kill_all", "kill_pattern", "cleanup"}

\* C34 as stated: list_sessions, kill_all_sessions, kill_sessions_by_pattern
\* and cleanup_idle_sessions always terminate whatever the probe outcomes;
\* only create_session (op None in the process record) and attach_session
\* may block, and they return once the multiplexer process exits.
C34_OnlyCreateAndAttachBlock ==
    /\ (TermRunning /\ inv[StepProc].op \in ScanOps) ~> TermEnded
    /\ [](TermBlocked => inv[StepProc].op \in {None, "attach"})
    /\ (inv[StepProc].pc = "return") ~> TermEnded

\* C34, amended: the enumerating operations always terminate whatever the
\* probe outcomes; only create_session, attach_session and start_logging may
\* block, each on its multiplexer call, and create_session returns once
\* that call has ended.
C34_ScansTerminate ==
    /\ (TermRunning /\ inv[StepProc].op \in ScanOps) ~> TermEnded
    /\ [](TermBlocked =>
            /\ inv[StepProc].op \in {None, "attach", "log"}
            /\ inv[StepProc].pc \in {"foreground", "attached", "logging"})
    /\ (inv[StepProc].pc = "return") ~> TermEnded

C34_Witness ==
    /\ inv[StepProc].op = "list_clean"
    /\ inv[StepProc].pc = "done"
    /\ inv[StepProc].killed # <<>>
    /\ inv[StepProc].snap # <<>>

====
